---- MODULE Spec2Model ----
(***************************************************************************)
(* dsari scheduler daemon (src/dsari/daemon.py): the Scheduler loop, its   *)
(* signal handlers, the child processes it forks and the two sqlite tables *)
(* it writes.  Python runs a signal handler between two bytecodes of the   *)
(* main thread, so a handler may run between any two steps of loop().      *)
(***************************************************************************)
EXTENDS Integers, Sequences, FiniteSets, TLC

\* ------------------------------------------------------------------ bounds
MaxTime == 3
MaxRuns == 4
MaxHup == 1
MaxTerm == 1
MaxTriggers == 1
MaxDbRuns == 3
MaxTermAgain == 1
MaxChildRuns == 3

\* ------------------------------------------------------- program constants
IdleWakeup == 60
SigkillGrace == 5
BackoffMin == 5
BackoffMax == 300
DefaultGroupMax == 1

\* --------------------------------------------------------- configurations
JobOrder == <<"a", "b">>

NoJob == [gen |-> -1, cfg |-> 0, name |-> "-"]
NoGroup == [gen |-> -1, cfg |-> 0, name |-> "-"]

\* A schedule that never ends: a cron expression, or an RRULE without UNTIL
\* or COUNT.
NoUntil == 1000

\* The UNTIL of the bounded RRULE of this model: its last occurrence.
LastOccurrence == 2

\* What dsari.Config holds after load_dir: schedule is the period of the
\* job's grid (0: no schedule), until the last instant of the grid (NoUntil
\* for a cron expression), max_execution 0 stands for None, kill_grace 0 for
\* None.
JobA(conc, grps) ==
    [schedule |-> 2, until |-> NoUntil, concurrent_runs |-> conc, groups |-> grps,
     max_execution |-> 1, grace |-> 1]

JobB ==
    [schedule |-> 0, until |-> NoUntil, concurrent_runs |-> TRUE, groups |-> {"g"},
     max_execution |-> 0, grace |-> 1]

\* A job whose schedule is an RRULE with UNTIL.
JobU ==
    [schedule |-> 2, until |-> LastOccurrence, concurrent_runs |-> TRUE, groups |-> {},
     max_execution |-> 0, grace |-> 1]

Configs ==
    << [kill_runs |-> TRUE, kill_grace |-> 1, names |-> {"a", "b"},
        job |-> [n \in {"a", "b"} |-> IF n = "a" THEN JobA(FALSE, {"g"}) ELSE JobB]],
       [kill_runs |-> TRUE, kill_grace |-> 1, names |-> {"a", "b"},
        job |-> [n \in {"a", "b"} |-> IF n = "a" THEN JobA(TRUE, {}) ELSE JobB]],
       [kill_runs |-> FALSE, kill_grace |-> 0, names |-> {"b"},
        job |-> [n \in {"b"} |-> JobB]],
       [kill_runs |-> FALSE, kill_grace |-> 0, names |-> {"a", "b"},
        job |-> [n \in {"a", "b"} |-> IF n = "a" THEN JobU ELSE JobB]] >>

\* The configurations whose schedules never end, and those with a bounded
\* RRULE.
ConfigIds ==
    {c \in 1..Len(Configs) : \A n \in Configs[c].names : Configs[c].job[n].until = NoUntil}

RRuleConfigIds == (1..Len(Configs)) \ ConfigIds

JobAttr(j) == Configs[j.cfg].job[j.name]

\* ConcurrencyGroup.__init__: max is 1 unless the configuration sets it.
GroupMaxOf(g) == DefaultGroupMax

\* job.concurrency_groups: the ConcurrencyGroup objects of the job's Config.
JobGroups(j) == {[gen |-> j.gen, cfg |-> j.cfg, name |-> n] : n \in JobAttr(j).groups}

\* ------------------------------------------------------------------- state
VARIABLES
    now,             \* the wall clock
    config,          \* self.config, as an index into Configs
    gen,             \* how many Config objects have been built
    terms, trigs,    \* signals and trigger files so far
    shutdown, shutdown_begin,
    jobs,            \* self.jobs
    scheduled_runs, running_runs, running_groups,
    runs,            \* the Run objects, by id
    nextId,
    wakeup,          \* min(self.wakeups)
    next_wakeup,
    pc, tjobs, todo, cur,
    child,           \* the forked processes, by pid
    rows,            \* table runs
    rows_running,    \* table runs_running
    trigger,         \* trigger files, by job name
    wait_status,     \* wait_deadline: the status os.wait4 returned
    wait_code,       \* wait_deadline: the exit code it computed from it
    arg, res,        \* the arguments and the result of the function under study
    db_conn,         \* database.py: the connection, its open transaction and the call under way
    fresh,           \* history: the runs forked in the iteration under way that
                     \* process_run_execution_time has not looked at yet
    procs            \* os.fork: the scheduler's job.command and the children, each with its copy

vars == <<now, config, gen, terms, trigs, shutdown, shutdown_begin, jobs,
          scheduled_runs, running_runs, running_groups, runs, nextId, wakeup,
          next_wakeup, pc, tjobs, todo, cur, child, rows, rows_running, trigger,
          wait_status, wait_code, arg, res, db_conn, procs, fresh>>

RunIds == 1..MaxRuns
NoWakeup == 1000

\* daemon.py lines 44-49: dateutil is installed.
HAS_DATEUTIL == TRUE

\* A trigger file <data_dir>/trigger/<job>/trigger.json: what its text is
\* (kind: not JSON, JSON but not a mapping, a mapping), its modification time,
\* and for a mapping its key environment (absent, a mapping, something else) and
\* its key schedule_time (absent, a number, a date string dateutil parses, a
\* string it does not parse, a value of any other type) with the instant the
\* number or the date stands for.
NoFile == [kind |-> "none", mtime |-> 0, env |-> "absent", stype |-> "absent", field |-> -1]

\* The mapping json.load returns for a trigger file; Run.__init__ sets the
\* empty mapping.
ParsedData(f) == [env |-> f.env, stype |-> f.stype, field |-> f.field]
NoData == [env |-> "absent", stype |-> "absent", field |-> -1]

NoRun ==
    [job |-> NoJob, respawn |-> FALSE, trigger_type |-> "none", schedule_time |-> 0,
     cgroup |-> NoGroup, start_time |-> -1, term_sent |-> FALSE, kill_sent |-> FALSE,
     pid |-> 0, trigger_data |-> NoData]

\* dsari.Run(job)
NewRun(j, resp, ttype, t) ==
    [job |-> j, respawn |-> resp, trigger_type |-> ttype, schedule_time |-> t,
     cgroup |-> NoGroup, start_time |-> -1, term_sent |-> FALSE, kill_sent |-> FALSE,
     pid |-> 0, trigger_data |-> NoData]

SeqSet(s) == {s[i] : i \in 1..Len(s)}

RECURSIVE Remove(_, _)
Remove(s, x) ==
    IF s = <<>> THEN <<>>
    ELSE IF Head(s) = x THEN Tail(s)
    ELSE <<Head(s)>> \o Remove(Tail(s), x)

Min2(a, b) == IF a < b THEN a ELSE b

\* A get_next_schedule_time that may return its anchor: the first instant of
\* the job's grid at or after the anchor.
get_next_schedule_time_or_now(period, anchor) == period * ((anchor + period - 1) \div period)

\* get_next_schedule_time for a cron-like schedule: the first instant of the
\* job's grid strictly after the anchor.
get_next_schedule_time(period, anchor) == period * ((anchor \div period) + 1)

\* backoff(a, b): clamp(2 ** ln(b - a), 5, 300) in whole seconds; 2 ** ln(x) < 5 up
\* to x = 10 and exceeds 300 from x = 3748 on; in between, its value at the lower
\* end of each octave, rounded down.
backoff(a, b) ==
    IF a >= b THEN BackoffMin
    ELSE IF b - a <= 10 THEN BackoffMin
    ELSE IF b - a < 32 THEN 5
    ELSE IF b - a < 64 THEN 11
    ELSE IF b - a < 128 THEN 17
    ELSE IF b - a < 256 THEN 28
    ELSE IF b - a < 512 THEN 46
    ELSE IF b - a < 1024 THEN 75
    ELSE IF b - a < 2048 THEN 122
    ELSE IF b - a < 3748 THEN 197
    ELSE BackoffMax

NoChild == [st |-> "none", status |-> 0]

\* The wait statuses a child of this model ends with: exit 0, and killed by
\* SIGABRT with a core dump (0x80 | 6).
WaitStatuses == {0, 134}

\* wait_deadline lines 82-86: the exit code computed from a wait status.
ExitCode(status) ==
    IF status % 256 > 0 THEN 128 + (status % 256) ELSE status \div 256

Refs(sr, rr, td, c) == SeqSet(sr) \cup SeqSet(rr) \cup SeqSet(td) \cup {c}

\* Run objects nothing refers to any more are garbage.
Collect(h, refs) == [i \in RunIds |-> IF i \in refs THEN h[i] ELSE NoRun]

\* sorted(self.config.jobs.items()) of Config c, built as generation g.
ConfigJobs(c, g) ==
    LET s == SelectSeq(JobOrder, LAMBDA n : n \in Configs[c].names)
    IN  [i \in 1..Len(s) |-> [gen |-> g, cfg |-> c, name |-> s[i]]]

HasSchedule(j) == JobAttr(j).schedule > 0

\* get_next_schedule_time lines 59-66: rrule.after returns None when the rule
\* has no occurrence after start_time, and line 63 adds subsecond_offset to it
\* before line 64 looks at it: the call raises TypeError.
NextScheduleRaises(j, start_time) ==
    get_next_schedule_time(JobAttr(j).schedule, start_time) > JobAttr(j).until

\* reset_jobs lines 310-318: the jobs with a schedule for which
\* get_next_schedule_time raises nothing at time t.
ScheduledJobs(js, t) ==
    SelectSeq(js, LAMBDA j : HasSchedule(j) /\ ~NextScheduleRaises(j, t))

ClearRespawn(h, rr) ==
    [i \in RunIds |-> IF i \in SeqSet(rr) THEN [h[i] EXCEPT !.respawn = FALSE] ELSE h[i]]

\* A reset_jobs that leaves run.respawn of the runs it builds at its default.
ResetHeapNoRespawn(h, rr, c, g, n, t) ==
    LET sj == ScheduledJobs(ConfigJobs(c, g), t)
        cleared == ClearRespawn(h, rr)
    IN  [i \in RunIds |->
            IF i >= n /\ i < n + Len(sj)
            THEN NewRun(sj[i - n + 1], FALSE, "schedule",
                        get_next_schedule_time(JobAttr(sj[i - n + 1]).schedule, t))
            ELSE cleared[i]]

\* reset_jobs lines 303-331: the heap after the running runs lost their respawn
\* flag and one respawn run was built for each job with a schedule.
ResetHeap(h, rr, c, g, n, t) ==
    LET sj == ScheduledJobs(ConfigJobs(c, g), t)
        cleared == ClearRespawn(h, rr)
    IN  [i \in RunIds |->
            IF i >= n /\ i < n + Len(sj)
            THEN NewRun(sj[i - n + 1], TRUE, "schedule",
                        get_next_schedule_time(JobAttr(sj[i - n + 1]).schedule, t))
            ELSE cleared[i]]

ResetScheduled(c, g, n, t) ==
    LET sj == ScheduledJobs(ConfigJobs(c, g), t)
    IN  [i \in 1..Len(sj) |-> n + i - 1]

\* Scheduler.__init__: the scheduler after construction.
SchedInitFrom(cs, strays) ==
    /\ now = 0
    /\ config \in cs
    /\ gen = 0
    /\ terms = 0 /\ trigs = 0
    /\ shutdown = FALSE
    /\ shutdown_begin = 0
    /\ jobs = ConfigJobs(config, 0)
    /\ scheduled_runs = ResetScheduled(config, 0, 1, 0)
    /\ running_runs = <<>>
    /\ running_groups = {}
    /\ runs = ResetHeap([i \in RunIds |-> NoRun], <<>>, config, 0, 1, 0)
    /\ nextId = 1 + Len(scheduled_runs)
    /\ wakeup = NoWakeup
    /\ next_wakeup = IdleWakeup
    /\ pc = "start"
    /\ tjobs = <<>>
    /\ todo = <<>>
    /\ cur = 0
    /\ child = [i \in RunIds \cup strays |->
                   IF i \in strays THEN [st |-> "live", status |-> 0] ELSE NoChild]
    /\ rows = {}
    /\ rows_running = {}
    /\ trigger = [n \in SeqSet(JobOrder) |-> NoFile]
    /\ fresh = {}

\* The scheduler started with no child process of its own.
SchedInitIn(cs) == SchedInitFrom(cs, {})

SchedInit == SchedInitIn(ConfigIds)

\* The variables of the functions studied by themselves, when they are not.
Pending == [pending |-> TRUE]
NoCall == arg = Pending /\ res = Pending /\ db_conn = Pending /\ procs = Pending

Init ==
    /\ SchedInit
    /\ wait_status = 0
    /\ wait_code = -1
    /\ NoCall

Alive == pc \notin {"returned", "crashed", "killed"}

SetMin(S) == CHOOSE x \in S : \A y \in S : x <= y

GroupCount(rg, g) == Cardinality({p \in rg : p[1] = g})

RunningJobs == {runs[x].job : x \in SeqSet(running_runs)}

\* A process_scheduled_run without the test of line 585: every run is due.
IsDueAlways(r, t) == TRUE

\* process_scheduled_run line 585 (negated): the run is due.
IsDue(r, t) == runs[r].schedule_time <= t

\* A process_scheduled_run without the special case of lines 591-594: only a
\* live run of the same Job object defers the run.
JobBusyIdentityOnly(j) == ~JobAttr(j).concurrent_runs /\ j \in RunningJobs

\* process_scheduled_run lines 588-594: the job forbids concurrent runs and a
\* run of the same Job object, or of a Job of the same name, is live.
JobBusy(j) ==
    /\ ~JobAttr(j).concurrent_runs
    /\ \/ j \in RunningJobs
       \/ j.name \in {k.name : k \in RunningJobs}

\* process_scheduled_run lines 596-605: the groups random.shuffle may put first
\* among those with a free slot.
FreeGroups(j) == {g \in JobGroups(j) : GroupCount(running_groups, g) < GroupMaxOf(g)}

\* ------------------------------------------------------ the loop, by steps
\* loop line 775 and process_triggers lines 526-528.
LoopStart ==
    /\ pc = "start"
    /\ wakeup' = NoWakeup
    /\ tjobs' = IF shutdown THEN <<>> ELSE jobs
    /\ pc' = "triggers"
    /\ UNCHANGED <<fresh, procs, db_conn, arg, res, wait_status, wait_code, now, config, gen, terms, trigs, shutdown, shutdown_begin, jobs,
                   scheduled_runs, running_runs, running_groups, runs, nextId,
                   next_wakeup, todo, cur, child, rows, rows_running, trigger>>

\* process_trigger_job lines 550-558: the file is refused with a logged error.
TriggerRefused(f) ==
    \/ f.kind \in {"badjson", "notdict"}
    \/ f.env = "notdict"

\* process_trigger_job lines 560-572: the schedule_time key is refused with a
\* logged error (a string dateutil cannot parse, or any string without dateutil).
TimeRefused(f) ==
    \/ f.stype = "baddate"
    \/ f.stype = "date" /\ ~HAS_DATEUTIL

\* process_trigger_job line 565: dateutil.parser.parse is handed a value that is
\* no string and raises TypeError (AttributeError in older releases), which the
\* except ValueError of line 566 does not catch.
TimeRaises(f) == f.stype = "other" /\ HAS_DATEUTIL

\* A process_trigger_job that ignores the key schedule_time.
TriggerTimeMtime(f) == f.mtime

\* process_trigger_job lines 535 and 560-572: the schedule_time of the run a
\* trigger file asks for.
TriggerTime(f) == IF f.stype \in {"number", "date"} THEN f.field ELSE f.mtime

\* process_trigger_job lines 574-578: the Run built for a trigger file.
TriggerRun(j, f) == [NewRun(j, FALSE, "file", TriggerTime(f)) EXCEPT !.trigger_data = ParsedData(f)]

\* process_trigger_job for the next job of the list process_triggers walks.
ProcessTriggerJob ==
    /\ pc = "triggers"
    /\ tjobs # <<>>
    /\ LET j == Head(tjobs)
           f == trigger[j.name]
       IN  /\ tjobs' = Tail(tjobs)
           /\ trigger' = [trigger EXCEPT ![j.name] = NoFile]
           /\ IF f.kind = "none" \/ TriggerRefused(f) \/ TimeRefused(f)
              THEN UNCHANGED <<runs, scheduled_runs, nextId, pc>>
              ELSE IF f.stype = "other"
              THEN /\ pc' = IF TimeRaises(f) THEN "crashed" ELSE pc
                   /\ UNCHANGED <<runs, scheduled_runs, nextId>>
              ELSE /\ nextId <= MaxRuns
                   /\ runs' = [runs EXCEPT ![nextId] = TriggerRun(j, f)]
                   /\ scheduled_runs' = Append(scheduled_runs, nextId)
                   /\ nextId' = nextId + 1
                   /\ pc' = pc
    /\ UNCHANGED <<fresh, procs, db_conn, arg, res, wait_status, wait_code, now, config, gen, terms, trigs, shutdown, shutdown_begin, jobs,
                   running_runs, running_groups, wakeup, next_wakeup, todo, cur,
                   child, rows, rows_running>>

Perms(s) ==
    {p \in [1..Len(s) -> SeqSet(s)] : \A i, k \in 1..Len(s) : i # k => p[i] # p[k]}

\* loop lines 778-779: the shuffled copy of scheduled_runs.
CopyScheduled ==
    /\ pc = "triggers"
    /\ tjobs = <<>>
    /\ todo' \in Perms(scheduled_runs)
    /\ pc' = "pass"
    /\ UNCHANGED <<fresh, procs, db_conn, arg, res, wait_status, wait_code, now, config, gen, terms, trigs, shutdown, shutdown_begin, jobs,
                   scheduled_runs, running_runs, running_groups, runs, nextId, wakeup,
                   next_wakeup, tjobs, cur, child, rows, rows_running, trigger>>

\* process_scheduled_run lines 583-608 when the run is not started.
Defer ==
    /\ pc = "pass"
    /\ todo # <<>>
    /\ LET r == Head(todo)
           j == runs[r].job
       IN  /\ \/ ~IsDue(r, now)
              \/ JobBusy(j)
              \/ JobGroups(j) # {} /\ FreeGroups(j) = {}
           /\ wakeup' = IF ~IsDue(r, now)
                        THEN Min2(wakeup, runs[r].schedule_time)
                        ELSE Min2(wakeup, now + backoff(runs[r].schedule_time, now))
           /\ todo' = Tail(todo)
           /\ runs' = Collect(IF IsDue(r, now) /\ ~JobBusy(j)
                              THEN [runs EXCEPT ![r].cgroup = NoGroup]
                              ELSE runs,
                              Refs(scheduled_runs, running_runs, todo', cur))
    /\ UNCHANGED <<fresh, procs, db_conn, arg, res, wait_status, wait_code, now, config, gen, terms, trigs, shutdown, shutdown_begin, jobs,
                   scheduled_runs, running_runs, running_groups, nextId,
                   next_wakeup, pc, tjobs, cur, child, rows, rows_running, trigger>>

\* process_scheduled_run lines 583-746 when the run is started: the group is
\* chosen, the runs_running row written and the child forked.
Fork ==
    /\ pc = "pass"
    /\ todo # <<>>
    /\ LET r == Head(todo)
           j == runs[r].job
       IN  /\ IsDue(r, now)
           /\ ~JobBusy(j)
           /\ \E g \in (IF JobGroups(j) = {} THEN {NoGroup} ELSE FreeGroups(j)) :
                runs' = [runs EXCEPT ![r] = [@ EXCEPT !.cgroup = g, !.start_time = now,
                                                      !.term_sent = FALSE,
                                                      !.kill_sent = FALSE, !.pid = r]]
           /\ rows_running' = rows_running \cup {r}
           /\ child' = [child EXCEPT ![r] = [st |-> "live", status |-> 0]]
           /\ fresh' = fresh \cup {r}
           /\ cur' = r
           /\ todo' = Tail(todo)
           /\ pc' = "remove"
    /\ UNCHANGED <<procs, db_conn, arg, res, wait_status, wait_code, now, config, gen, terms, trigs, shutdown, shutdown_begin, jobs,
                   scheduled_runs, running_runs, running_groups, nextId, wakeup,
                   next_wakeup, tjobs, rows, trigger>>

\* process_scheduled_run line 747: list.remove raises ValueError when the run is
\* not in the list, and nothing catches it.
RemoveScheduled ==
    /\ pc = "remove"
    /\ IF cur \in SeqSet(scheduled_runs)
       THEN /\ scheduled_runs' = Remove(scheduled_runs, cur)
            /\ pc' = "append"
       ELSE /\ pc' = "crashed"
            /\ UNCHANGED scheduled_runs
    /\ UNCHANGED <<fresh, procs, db_conn, arg, res, wait_status, wait_code, now, config, gen, terms, trigs, shutdown, shutdown_begin, jobs,
                   running_runs, running_groups, runs, nextId, wakeup,
                   next_wakeup, tjobs, todo, cur, child, rows, rows_running, trigger>>

\* process_scheduled_run lines 748-751.
AppendRunning ==
    /\ pc = "append"
    /\ running_runs' = Append(running_runs, cur)
    /\ running_groups' = IF runs[cur].cgroup # NoGroup
                         THEN running_groups \cup {<<runs[cur].cgroup, cur>>}
                         ELSE running_groups
    /\ IF runs[cur].respawn /\ HasSchedule(runs[cur].job)
       THEN pc' = "respawn" /\ cur' = cur
       ELSE pc' = "pass" /\ cur' = 0
    /\ UNCHANGED <<fresh, procs, db_conn, arg, res, wait_status, wait_code, now, config, gen, terms, trigs, shutdown, shutdown_begin, jobs,
                   scheduled_runs, runs, nextId, wakeup,
                   next_wakeup, tjobs, todo, child, rows, rows_running, trigger>>

\* process_scheduled_run lines 752-757: the respawn successor, anchored at the
\* start time of the run just forked. Nothing between line 755 and the top of
\* main catches what get_next_schedule_time raises.
QueueRespawn ==
    /\ pc = "respawn"
    /\ nextId <= MaxRuns
    /\ IF NextScheduleRaises(runs[cur].job, runs[cur].start_time)
       THEN /\ pc' = "crashed"
            /\ UNCHANGED <<runs, scheduled_runs, nextId, cur>>
       ELSE /\ LET j == runs[cur].job
               IN  runs' = [runs EXCEPT ![nextId] =
                               NewRun(j, TRUE, "schedule",
                                      get_next_schedule_time(JobAttr(j).schedule,
                                                             runs[cur].start_time))]
            /\ scheduled_runs' = Append(scheduled_runs, nextId)
            /\ nextId' = nextId + 1
            /\ pc' = "pass"
            /\ cur' = 0
    /\ UNCHANGED <<fresh, procs, db_conn, arg, res, wait_status, wait_code, now, config, gen, terms, trigs, shutdown, shutdown_begin, jobs,
                   running_runs, running_groups, wakeup,
                   next_wakeup, tjobs, todo, child, rows, rows_running, trigger>>

\* process_run_execution_time: the Run after the signals it sends at time t.
ExecRun(r, t) ==
    LET a == JobAttr(r.job)
        delta == t - r.start_time
    IN  IF a.max_execution = 0 THEN r
        ELSE IF delta > a.max_execution + a.grace THEN [r EXCEPT !.kill_sent = TRUE]
        ELSE IF delta > a.max_execution THEN [r EXCEPT !.term_sent = TRUE]
        ELSE r

\* process_run_execution_time: the wake-up it appends at time t.
ExecWake(r, t) ==
    LET a == JobAttr(r.job)
        delta == t - r.start_time
    IN  IF a.max_execution = 0 THEN NoWakeup
        ELSE IF delta > a.max_execution + a.grace THEN t + SigkillGrace
        ELSE IF delta > a.max_execution THEN t + a.grace
        ELSE r.start_time + a.max_execution

\* loop lines 783-784.
ExecTimes ==
    /\ pc = "pass"
    /\ todo = <<>>
    /\ runs' = [i \in RunIds |->
                   IF i \in SeqSet(running_runs) THEN ExecRun(runs[i], now) ELSE runs[i]]
    /\ wakeup' = SetMin({wakeup} \cup {ExecWake(runs[i], now) : i \in SeqSet(running_runs)})
    /\ fresh' = {}
    /\ pc' = "monitor"
    /\ UNCHANGED <<procs, db_conn, arg, res, wait_status, wait_code, now, config, gen, terms, trigs, shutdown, shutdown_begin, jobs,
                   scheduled_runs, running_runs, running_groups, nextId,
                   next_wakeup, tjobs, todo, cur, child, rows, rows_running, trigger>>

\* monitor_shutdown lines 241-247: the grace time is configured and not over.
GraceRunning(t) ==
    /\ Configs[config].kill_runs
    /\ Configs[config].kill_grace > 0
    /\ t < shutdown_begin + Configs[config].kill_grace

\* monitor_shutdown lines 241-254: the grace time is configured and over.
GraceOver(t) ==
    /\ Configs[config].kill_runs
    /\ Configs[config].kill_grace > 0
    /\ t >= shutdown_begin + Configs[config].kill_grace

\* process_wakeups
ProcessWakeups(t, w) == Min2(t + IdleWakeup, w)

\* loop lines 786-789: monitor_shutdown, then process_wakeups.
MonitorAndWakeups ==
    /\ pc = "monitor"
    /\ runs' = IF shutdown /\ GraceOver(now)
               THEN [i \in RunIds |->
                        IF i \in SeqSet(running_runs)
                        THEN [runs[i] EXCEPT !.kill_sent = TRUE] ELSE runs[i]]
               ELSE runs
    /\ wakeup' = IF shutdown /\ GraceRunning(now)
                 THEN Min2(wakeup, shutdown_begin + Configs[config].kill_grace)
                 ELSE wakeup
    /\ next_wakeup' = ProcessWakeups(now, wakeup')
    /\ pc' = "wait"
    /\ UNCHANGED <<fresh, procs, db_conn, arg, res, wait_status, wait_code, now, config, gen, terms, trigs, shutdown, shutdown_begin, jobs,
                   scheduled_runs, running_runs, running_groups, nextId,
                   tjobs, todo, cur, child, rows, rows_running, trigger>>

\* loop lines 791-803: wait for children, return, or sleep.
WaitOrSleep ==
    /\ pc = "wait"
    /\ pc' = IF running_runs # <<>> THEN "while"
             ELSE IF shutdown THEN "returned"
             ELSE "sleep"
    /\ UNCHANGED <<fresh, procs, db_conn, arg, res, wait_status, wait_code, now, config, gen, terms, trigs, shutdown, shutdown_begin, jobs,
                   scheduled_runs, running_runs, running_groups, runs, nextId, wakeup,
                   next_wakeup, tjobs, todo, cur, child, rows, rows_running, trigger>>

\* loop line 792: the condition of the inner while.
WhileCheck ==
    /\ pc = "while"
    /\ pc' = IF running_runs # <<>> /\ next_wakeup > now THEN "inchild" ELSE "start"
    /\ UNCHANGED <<fresh, procs, db_conn, arg, res, wait_status, wait_code, now, config, gen, terms, trigs, shutdown, shutdown_begin, jobs,
                   scheduled_runs, running_runs, running_groups, runs, nextId, wakeup,
                   next_wakeup, tjobs, todo, cur, child, rows, rows_running, trigger>>

\* The children wait4 may find ended: a child's end is seen by the daemon only
\* here, so the child ends and is reaped in one step.
Ended == {i \in DOMAIN child : child[i].st = "live"}

\* A lookup that takes the first live run whatever the pid.
first_run(rr, p) == IF rr = <<>> THEN 0 ELSE rr[1]

\* process_next_child lines 479-483: the run of running_runs whose pid is the
\* one wait4 returned, 0 (None) when there is none.
run_of_pid(rr, p) ==
    IF \E x \in SeqSet(rr) : runs[x].pid = p
    THEN CHOOSE x \in SeqSet(rr) : runs[x].pid = p
    ELSE 0

\* process_next_child lines 476-485: wait4 returns an ended child and its wait
\* status; its Run is looked up by pid.
ReapChild ==
    /\ pc = "inchild"
    /\ \E p \in Ended, s \in WaitStatuses :
         /\ child' = [child EXCEPT ![p] = [st |-> "reaped", status |-> s]]
         /\ IF run_of_pid(running_runs, p) # 0
            THEN pc' = "record" /\ cur' = run_of_pid(running_runs, p)
            ELSE pc' = "while" /\ cur' = cur
    /\ UNCHANGED <<fresh, procs, db_conn, arg, res, wait_status, wait_code, now, config, gen, terms, trigs, shutdown, shutdown_begin, jobs,
                   scheduled_runs, running_runs, running_groups, runs, nextId, wakeup,
                   next_wakeup, tjobs, todo, rows, rows_running, trigger>>

\* wait_deadline lines 87-90 with no child ended and the deadline passed:
\* process_next_child returns 0 and the inner while is left (line 794).
WaitTimeout ==
    /\ pc = "inchild"
    /\ now >= next_wakeup
    /\ pc' = "start"
    /\ UNCHANGED <<fresh, procs, db_conn, arg, res, wait_status, wait_code, now, config, gen, terms, trigs, shutdown, shutdown_begin, jobs,
                   scheduled_runs, running_runs, running_groups, runs, nextId, wakeup,
                   next_wakeup, tjobs, todo, cur, child, rows, rows_running, trigger>>

\* The row process_next_child lines 487-517 writes to table runs.
FinishedRow(id, r, t, status) ==
    [job_name |-> r.job.name, run_id |-> id, schedule_time |-> r.schedule_time,
     start_time |-> r.start_time, stop_time |-> t, exit_code |-> ExitCode(status),
     trigger_type |-> r.trigger_type]

\* A process_next_child without lines 521-522: the bucket keeps the run.
bucket_keep(rg, g, r) == rg

\* process_next_child lines 521-522: the run leaves the bucket of its group.
bucket_remove(rg, g, r) == rg \ {<<g, r>>}

\* process_next_child lines 486-523.
RecordFinished ==
    /\ pc = "record"
    /\ rows' = rows \cup {FinishedRow(cur, runs[cur], now, child[cur].status)}
    /\ rows_running' = rows_running \ {cur}
    /\ running_runs' = Remove(running_runs, cur)
    /\ running_groups' = bucket_remove(running_groups, runs[cur].cgroup, cur)
    /\ cur' = 0
    /\ pc' = "while"
    /\ runs' = Collect(runs, Refs(scheduled_runs, running_runs', todo, 0))
    /\ child' = [child EXCEPT ![cur].status = 0]
    /\ UNCHANGED <<fresh, procs, db_conn, arg, res, wait_status, wait_code, now, config, gen, terms, trigs, shutdown, shutdown_begin, jobs,
                   scheduled_runs, nextId, wakeup,
                   next_wakeup, tjobs, todo, trigger>>

\* loop lines 800-803: time.sleep ends at next_wakeup.
SleepDone ==
    /\ pc = "sleep"
    /\ now >= next_wakeup
    /\ pc' = "start"
    /\ UNCHANGED <<fresh, procs, db_conn, arg, res, wait_status, wait_code, now, config, gen, terms, trigs, shutdown, shutdown_begin, jobs,
                   scheduled_runs, running_runs, running_groups, runs, nextId, wakeup,
                   next_wakeup, tjobs, todo, cur, child, rows, rows_running, trigger>>

\* ------------------------------------------------------- signal handlers
\* A handler that runs while the loop is in time.sleep: the sleep ends early
\* (Python 2) or is resumed (Python 3.5 and later).
AfterHandler(p) == IF p = "sleep" THEN {"sleep", "start"} ELSE {p}

\* begin_shutdown lines 230-236: os.kill raises OSError for a pid wait4 has
\* already reaped; these are the positions in running_runs where it would.
KillFails(rr) ==
    {k \in 1..Len(rr) : ~runs[rr[k]].term_sent /\ child[rr[k]].st = "reaped"}

\* begin_shutdown lines 226-236: the Run objects after it.
ShutdownHeap(rr) ==
    LET stop == IF KillFails(rr) = {} THEN Len(rr) + 1 ELSE SetMin(KillFails(rr))
    IN  [i \in RunIds |->
            IF \E k \in 1..Len(rr) : rr[k] = i
            THEN [runs[i] EXCEPT
                    !.respawn = FALSE,
                    !.term_sent = \/ @
                                  \/ /\ Configs[config].kill_runs
                                     /\ \E k \in 1..Len(rr) : rr[k] = i /\ k < stop]
            ELSE runs[i]]

\* signal_handler for SIGINT and SIGTERM: begin_shutdown.
SigTerm ==
    /\ Alive
    /\ terms < MaxTerm
    /\ terms' = terms + 1
    /\ shutdown' = TRUE
    /\ shutdown_begin' = now
    /\ scheduled_runs' = <<>>
    /\ runs' = Collect(ShutdownHeap(running_runs), Refs(<<>>, running_runs, todo, cur))
    /\ IF Configs[config].kill_runs /\ KillFails(running_runs) # {}
       THEN pc' = "crashed"
       ELSE pc' \in AfterHandler(pc)
    /\ UNCHANGED <<fresh, procs, db_conn, arg, res, wait_status, wait_code, now, config, gen, trigs, jobs, running_runs, running_groups,
                   nextId, wakeup, next_wakeup, tjobs, todo, cur, child, rows,
                   rows_running, trigger>>

\* signal_handler for SIGHUP: load_config, which finds configuration c, then
\* reset_jobs (which returns at once during shutdown).
Reload(c) ==
    /\ gen < MaxHup
    /\ gen' = gen + 1
    /\   /\ config' = c
         /\ IF shutdown
            THEN UNCHANGED <<jobs, scheduled_runs, runs, nextId>>
            ELSE /\ nextId + Len(ResetScheduled(c, gen', nextId, now)) <= MaxRuns + 1
                 /\ jobs' = ConfigJobs(c, gen')
                 /\ scheduled_runs' = ResetScheduled(c, gen', nextId, now)
                 /\ nextId' = nextId + Len(scheduled_runs')
                 /\ runs' = Collect(ResetHeap(runs, running_runs, c, gen', nextId, now),
                                    Refs(scheduled_runs', running_runs, todo, cur))
    /\ pc' \in AfterHandler(pc)
    /\ UNCHANGED <<fresh, procs, db_conn, arg, res, wait_status, wait_code, now, terms, trigs, shutdown, shutdown_begin, running_runs,
                   running_groups, wakeup, next_wakeup, tjobs, todo, cur, child, rows,
                   rows_running, trigger>>

SigHup ==
    /\ Alive
    /\ \E c \in ConfigIds : Reload(c)

\* signal_handler for SIGQUIT: sigquit_status only logs, so outside time.sleep
\* the handler leaves every variable as it is.
SigQuit ==
    /\ pc = "sleep"
    /\ pc' \in AfterHandler(pc)
    /\ UNCHANGED <<fresh, procs, db_conn, arg, res, wait_status, wait_code, now, config, gen, terms, trigs, shutdown, shutdown_begin, jobs,
                   scheduled_runs, running_runs, running_groups, runs, nextId, wakeup,
                   next_wakeup, tjobs, todo, cur, child, rows, rows_running, trigger>>

\* ------------------------------------------------------- the environment
\* The clock read by datetime.datetime.now().
Tick ==
    /\ Alive
    /\ now < MaxTime
    /\ now' = now + 1
    /\ UNCHANGED <<fresh, procs, db_conn, arg, res, wait_status, wait_code, config, gen, terms, trigs, shutdown, shutdown_begin, jobs,
                   scheduled_runs, running_runs, running_groups, runs, nextId, wakeup,
                   next_wakeup, pc, tjobs, todo, cur, child, rows, rows_running, trigger>>

\* Somebody publishes <data_dir>/trigger/<job>/trigger.json.
WriteTrigger ==
    /\ Alive
    /\ trigs < MaxTriggers
    /\ trigs' = trigs + 1
    /\ \E n \in SeqSet(JobOrder), k \in {"dict", "notdict"} :
         trigger' = [trigger EXCEPT ![n] = [NoFile EXCEPT !.kind = k, !.mtime = now]]
    /\ UNCHANGED <<fresh, procs, db_conn, arg, res, wait_status, wait_code, now, config, gen, terms, shutdown, shutdown_begin, jobs,
                   scheduled_runs, running_runs, running_groups, runs, nextId, wakeup,
                   next_wakeup, pc, tjobs, todo, cur, child, rows, rows_running>>

Next ==
    \/ LoopStart
    \/ ProcessTriggerJob
    \/ CopyScheduled
    \/ Defer
    \/ Fork
    \/ RemoveScheduled
    \/ AppendRunning
    \/ QueueRespawn
    \/ ExecTimes
    \/ MonitorAndWakeups
    \/ WaitOrSleep
    \/ WhileCheck
    \/ ReapChild
    \/ WaitTimeout
    \/ RecordFinished
    \/ SleepDone
    \/ SigTerm
    \/ SigHup
    \/ SigQuit
    \/ Tick
    \/ WriteTrigger

Spec == Init /\ [][Next]_vars

\* ------------------------------------------------------------ SIGUSR1
\* Scheduler.__init__ lines 142-143 install signal_handler for SIGHUP, SIGINT,
\* SIGTERM and SIGQUIT only: SIGUSR1 keeps its default action, which ends the
\* process where it stands.
SigUsr1 ==
    /\ Alive
    /\ pc' = "killed"
    /\ UNCHANGED <<fresh, procs, db_conn, arg, res, wait_status, wait_code, now, config, gen, terms, trigs,
                   shutdown, shutdown_begin, jobs, scheduled_runs, running_runs,
                   running_groups, runs, nextId, wakeup, next_wakeup, tjobs, todo, cur,
                   child, rows, rows_running, trigger>>

\* The daemon with SIGUSR1 among the signals sent to it.
SpecUsr1 == Init /\ [][Next \/ SigUsr1]_vars

\* ------------------------------------------- a further shutdown signal
\* signal_handler for a SIGINT or SIGTERM that arrives during shutdown:
\* begin_shutdown runs again, whole.
SigTermAgain ==
    /\ Alive
    /\ shutdown
    /\ terms >= MaxTerm
    /\ terms < MaxTerm + MaxTermAgain
    /\ terms' = terms + 1
    /\ shutdown' = TRUE
    /\ shutdown_begin' = now
    /\ scheduled_runs' = <<>>
    /\ runs' = Collect(ShutdownHeap(running_runs), Refs(<<>>, running_runs, todo, cur))
    /\ IF Configs[config].kill_runs /\ KillFails(running_runs) # {}
       THEN pc' = "crashed"
       ELSE pc' \in AfterHandler(pc)
    /\ UNCHANGED <<fresh, procs, db_conn, arg, res, wait_status, wait_code, now, config, gen, trigs, jobs,
                   running_runs, running_groups, nextId, wakeup, next_wakeup, tjobs, todo,
                   cur, child, rows, rows_running, trigger>>

\* The daemon with more than one shutdown signal sent to it.
SpecShutdown == Init /\ [][Next \/ SigTermAgain]_vars

\* ------------------------------------------------ wait_deadline, by itself
\* The statuses os.wait4(-1, WNOHANG) reports for an ended child: exited with
\* code c (c << 8), or terminated by signal n, with or without a core dump
\* (n, n | 0x80).
WaitStatusDomain ==
    {c * 256 : c \in 0..255} \cup {n + 128 * k : n \in 1..64, k \in {0, 1}}

WaitInit ==
    /\ SchedInit
    /\ config = 1
    /\ wait_status \in WaitStatusDomain
    /\ wait_code = -1
    /\ NoCall

\* wait_deadline lines 81-88 for a status of an ended child.
WaitDeadline ==
    /\ wait_code = -1
    /\ wait_code' = ExitCode(wait_status)
    /\ UNCHANGED <<fresh, procs, db_conn, arg, res, wait_status, now, config, gen, terms, trigs, shutdown, shutdown_begin,
                   jobs, scheduled_runs, running_runs, running_groups, runs, nextId,
                   wakeup, next_wakeup, pc, tjobs, todo, cur, child, rows, rows_running,
                   trigger>>

WaitNext == WaitDeadline

SpecWait == WaitInit /\ [][WaitNext]_vars

\* ------------------------------------------------ trigger intake, by itself
\* The trigger files process_trigger_job may find: none, a text that is no
\* JSON, JSON that is no mapping, and mappings with every shape of the keys
\* environment and schedule_time.
TriggerFiles ==
    {NoFile}
    \cup {[NoFile EXCEPT !.kind = k, !.mtime = 1] : k \in {"badjson", "notdict"}}
    \cup {[kind |-> "dict", mtime |-> 1, env |-> e, stype |-> t, field |-> -1] :
             e \in {"absent", "dict", "notdict"}, t \in {"absent", "baddate", "other"}}
    \cup {[kind |-> "dict", mtime |-> 1, env |-> e, stype |-> t, field |-> v] :
             e \in {"absent", "dict", "notdict"}, t \in {"number", "date"}, v \in {0, 2}}

\* The scheduler after construction, with any trigger files published.
TriggerInit ==
    /\ now = 0
    /\ config \in ConfigIds
    /\ gen = 0
    /\ terms = 0 /\ trigs = 0
    /\ shutdown = FALSE
    /\ shutdown_begin = 0
    /\ jobs = ConfigJobs(config, 0)
    /\ scheduled_runs = ResetScheduled(config, 0, 1, 0)
    /\ running_runs = <<>>
    /\ running_groups = {}
    /\ runs = ResetHeap([i \in RunIds |-> NoRun], <<>>, config, 0, 1, 0)
    /\ nextId = 1 + Len(scheduled_runs)
    /\ wakeup = NoWakeup
    /\ next_wakeup = IdleWakeup
    /\ pc = "start"
    /\ tjobs = <<>>
    /\ todo = <<>>
    /\ cur = 0
    /\ child = [i \in RunIds |-> NoChild]
    /\ rows = {}
    /\ rows_running = {}
    /\ trigger \in [SeqSet(JobOrder) -> TriggerFiles]
    /\ fresh = {}
    /\ wait_status = 0
    /\ wait_code = -1
    /\ NoCall

\* One trigger intake of loop(), with the signals that may interrupt it.
TriggerNext ==
    \/ LoopStart
    \/ ProcessTriggerJob
    \/ CopyScheduled
    \/ SigTerm
    \/ SigHup

SpecTrigger == TriggerInit /\ [][TriggerNext]_vars

\* --------------------------------------------- the functions, by themselves
\* The scheduler's variables, which a function studied by itself leaves alone.
SchedVars ==
    <<now, config, gen, terms, trigs, shutdown, shutdown_begin, jobs, scheduled_runs,
      running_runs, running_groups, runs, nextId, wakeup, next_wakeup, pc, tjobs, todo,
      cur, child, rows, rows_running, trigger, wait_status, wait_code, fresh>>

\* The scheduler a function studied by itself is called in.
CallInit == SchedInit /\ config = 1 /\ wait_status = 0 /\ wait_code = -1

\* ------------------------------------------ run_child_executor: the environment
\* An environment value as configured: unset, a string, or a number, with the
\* text str() makes of it.
Unset == [t |-> "unset", s |-> ""]
EnvKeys == {"JOB_NAME", "PWD", "FOO"}

\* str(val), lines 436, 438 and 441.
Str(v) == v.s

\* The mappings one level may hold: each key unset or set to one of vals.
EnvLevel(vals) == [EnvKeys -> {Unset} \cup vals]

\* Lines 384-434: the variables run_child_executor sets itself (of the keys
\* modelled, JOB_NAME).
BuiltinEnv(name) == [k \in EnvKeys |-> IF k = "JOB_NAME" THEN name ELSE ""]
BuiltinSet == {"JOB_NAME"}

\* for (key, val) in m.items(): environ[str(key)] = str(val), over an
\* environment kept as its values and the set of its keys.
Overlay(e, m) ==
    [val |-> [k \in EnvKeys |-> IF m[k] # Unset THEN Str(m[k]) ELSE e.val[k]],
     keys |-> e.keys \cup {k \in EnvKeys : m[k] # Unset}]

\* Lines 435-441 for the levels in a wrong order: the job's environment last.
EnvLevelsJobLast(b, g, j, t) == Overlay(Overlay(Overlay(b, g), t), j)

\* Lines 435-441: the global environment, the job's, the trigger's.
EnvLevels(b, g, j, t) == Overlay(Overlay(Overlay(b, g), j), t)

\* Lines 460-462: the directory the child changes into.
RunPwd(e, run_dir, isdir) == IF "PWD" \in e.keys /\ isdir THEN e.val["PWD"] ELSE run_dir

\* Lines 384-464: the environment handed to os.execvpe.
ChildEnviron(a) ==
    LET e == EnvLevels([val |-> BuiltinEnv(a.job_name), keys |-> BuiltinSet],
                       a.global, a.job, a.trigger)
    IN  [val |-> [e.val EXCEPT !["PWD"] = RunPwd(e, a.run_dir, a.isdir)],
         keys |-> e.keys \cup {"PWD"},
         cwd |-> RunPwd(e, a.run_dir, a.isdir)]

\* A run about to be executed: its job's name and run directory, the three
\* configured levels (a trigger without the key environment is the level with
\* every key unset), and whether the PWD asked for is a directory.
EnvInit ==
    /\ CallInit
    /\ db_conn = Pending
    /\ procs = Pending
    /\ arg \in [job_name : {"a"}, run_dir : {"/runs/a/1"},
                 global : EnvLevel({[t |-> "str", s |-> "g"]}),
                 job : EnvLevel({[t |-> "str", s |-> "j"]}),
                 trigger : EnvLevel({[t |-> "str", s |-> "t"], [t |-> "num", s |-> "1"]}),
                 isdir : BOOLEAN]
    /\ res = Pending

ExecChild ==
    /\ res = Pending
    /\ res' = ChildEnviron(arg)
    /\ UNCHANGED <<procs, arg, db_conn, SchedVars>>

EnvNext == ExecChild

SpecEnv == EnvInit /\ [][EnvNext]_vars

\* ------------------------------------------------- croniter_hash: H fields
\* croniter.croniter.RANGES: minute, hour, day of month, month, day of week,
\* second.
RANGES == <<<<0, 59>>, <<0, 23>>, <<1, 31>>, <<1, 12>>, <<0, 6>>, <<0, 59>>>>

\* 2 ** n
RECURSIVE Pow2(_)
Pow2(n) == IF n = 0 THEN 1 ELSE 2 * Pow2(n - 1)

\* _hash_do without the shift by the field's position.
hash_do_unshifted(crc, position, range_end, range_begin) ==
    LET e == IF range_end = 0 THEN RANGES[position + 1][2] ELSE range_end
        b == IF range_begin = 0 THEN RANGES[position + 1][1] ELSE range_begin
    IN  (crc % (e - b + 1)) + b

\* _hash_do for type "H", crc being crc32 of the id; a range_end or range_begin
\* of None is 0 here, which "if not range_end" treats alike.
hash_do(crc, position, range_end, range_begin) ==
    LET e == IF range_end = 0 THEN RANGES[position + 1][2] ELSE range_end
        b == IF range_begin = 0 THEN RANGES[position + 1][1] ELSE range_begin
    IN  ((crc \div Pow2(position)) % (e - b + 1)) + b

\* The items of an expression, as expr_format.split(" ") gives them:
\* H, H(lo-hi), H/step, H(lo-hi)/step, an @-word, anything else.
Item(k) == [k |-> k, lo |-> 0, hi |-> 0, step |-> 0, w |-> ""]
H == Item("H")
Star == Item("*")
HRange(lo, hi) == [Item("H(-)") EXCEPT !.lo = lo, !.hi = hi]
HStep(n) == [Item("H/") EXCEPT !.step = n]
HRangeStep(lo, hi, n) == [Item("H(-)/") EXCEPT !.lo = lo, !.hi = hi, !.step = n]
Word(w) == [Item("word") EXCEPT !.w = w]

\* What an item expands to: a number, a range with a step "lo-hi/step", or the
\* item itself.
Num(v) == [Item("num") EXCEPT !.lo = v]
RangeStep(lo, hi, n) == [Item("-/") EXCEPT !.lo = lo, !.hi = hi, !.step = n]

\* _hash_expand_item
hash_expand_item(item, crc, idx) ==
    IF item.k = "H" THEN Num(hash_do(crc, idx, 0, 0))
    ELSE IF item.k = "H(-)/"
    THEN RangeStep(hash_do(crc, idx, item.step, 0) + item.lo, item.hi, item.step)
    ELSE IF item.k = "H(-)" THEN Num(hash_do(crc, idx, item.hi, item.lo))
    ELSE IF item.k = "H/"
    THEN RangeStep(hash_do(crc, idx, item.step, 0), RANGES[idx + 1][2], item.step)
    ELSE item

\* _hash_expand lines 61-74 with @yearly left as it is.
hash_words_no_yearly(expr) ==
    IF expr = <<Word("@midnight")>> THEN <<H, HRange(0, 2), Star, Star, Star, H>>
    ELSE IF expr = <<Word("@hourly")>> THEN <<H, Star, Star, Star, Star, H>>
    ELSE IF expr = <<Word("@daily")>> THEN <<H, H, Star, Star, Star, H>>
    ELSE IF expr = <<Word("@weekly")>> THEN <<H, H, Star, Star, H, H>>
    ELSE IF expr = <<Word("@monthly")>> THEN <<H, H, H, Star, Star, H>>
    ELSE IF expr = <<Word("@annually")>> THEN <<H, H, H, H, Star, H>>
    ELSE expr

\* _hash_expand lines 61-74: the six fields an @-word stands for.
hash_words(expr) ==
    IF expr = <<Word("@midnight")>> THEN <<H, HRange(0, 2), Star, Star, Star, H>>
    ELSE IF expr = <<Word("@hourly")>> THEN <<H, Star, Star, Star, Star, H>>
    ELSE IF expr = <<Word("@daily")>> THEN <<H, H, Star, Star, Star, H>>
    ELSE IF expr = <<Word("@weekly")>> THEN <<H, H, Star, Star, H, H>>
    ELSE IF expr = <<Word("@monthly")>> THEN <<H, H, H, Star, Star, H>>
    ELSE IF expr = <<Word("@annually")>> THEN <<H, H, H, H, Star, H>>
    ELSE IF expr = <<Word("@yearly")>> THEN <<H, H, H, H, Star, H>>
    ELSE expr

\* _hash_expand
hash_expand(expr, crc) ==
    LET e == hash_words(expr)
    IN  [i \in 1..Len(e) |-> hash_expand_item(e[i], crc, i - 1)]

\* crc32 of the ids tried, "hello" (907060870) among them; all below 2 ** 31.
CrcSamples == {907060870, 2147483647, 1073741824} \cup 0..7 \cup {59, 60, 61, 3600}

AtWords == {"@midnight", "@hourly", "@daily", "@weekly", "@monthly", "@annually", "@yearly"}

\* The expressions tried: the @-words, their six-field forms, and H in every
\* field.
HashExprs ==
    {<<Word(w)>> : w \in AtWords}
    \cup {hash_words(<<Word(w)>>) : w \in AtWords}
    \cup {<<H, H, H, H, H, H>>, <<H, Star, Star, Star, Star>>,
          <<HStep(15), HRange(2, 5), HRangeStep(1, 28, 7), Star, Star, Num(0)>>}

HashInit ==
    /\ CallInit
    /\ db_conn = Pending
    /\ procs = Pending
    /\ arg \in [expr : HashExprs, crc : CrcSamples]
    /\ res = Pending

\* croniter_hash.__init__ with a hash_id: the expression handed to croniter.
HashExpand ==
    /\ res = Pending
    /\ res' = [expr |-> hash_expand(arg.expr, arg.crc)]
    /\ UNCHANGED <<procs, arg, db_conn, SchedVars>>

HashNext == HashExpand

SpecHash == HashInit /\ [][HashNext]_vars

\* ------------------------------------------------------- database.py: the store
\* database.get_database: the back-ends.
DbTypes == {"sqlite3", "postgresql", "mysql", "mongodb"}
IsSQL(type) == type # "mongodb"

DbJobNames == {"a", "b"}
DbRunIds == 1..MaxDbRuns

\* Python values by type: None, an int, a datetime, a float of epoch seconds,
\* a
\* str, a dict, and the text json.dumps makes of a dict.
None == [t |-> "None", v |-> 0]
IntOf(n) == [t |-> "int", v |-> n]
StrOf(x) == [t |-> "str", v |-> x]
Datetime(n) == [t |-> "datetime", v |-> n]
DictOf(d) == [t |-> "dict", v |-> d]
dt_to_epoch(d) == [t |-> "real", v |-> d.v]
epoch_to_dt(e) == [t |-> "datetime", v |-> e.v]
json_dumps(d) == [t |-> "text", v |-> d.v]
json_loads(x) == [t |-> "dict", v |-> x.v]

DbFields ==
    {"job_name", "run_id", "schedule_time", "start_time", "stop_time", "exit_code",
     "trigger_type", "trigger_data", "run_data"}

\* dsari.Run(job, id=run_id), with the attributes database.py reads and sets.
DbRun(job_name, id) ==
    [job_name |-> job_name, run_id |-> id, schedule_time |-> None, start_time |-> None,
     stop_time |-> None, exit_code |-> None, trigger_type |-> None,
     trigger_data |-> DictOf(NoData), run_data |-> None]

DbNoRun == DbRun("", 0)

\* _build_insert of BaseSQLDatabase (lines 80-90) and of SQLite3Database
\* (lines 579-595); MongoDBDatabase hands the values over as they are.
build_insert(type, k, v) ==
    IF type = "mongodb" THEN v
    ELSE IF type = "sqlite3" /\ k \in {"schedule_time", "start_time", "stop_time"}
    THEN dt_to_epoch(v)
    ELSE IF k \in {"trigger_data", "run_data"} THEN json_dumps(v)
    ELSE v

\* The row insert_run and insert_running_run write for a run.
InsertRow(type, run, fields) == [k \in fields |-> build_insert(type, k, run[k])]

\* What the driver hands back for a stored row: psycopg2 parses a json column
\* (lines 373-374) into a dict, the others return what was stored.
Fetched(type, f) ==
    IF type = "postgresql"
    THEN [k \in DOMAIN f |->
            IF k \in {"trigger_data", "run_data"} THEN json_loads(f[k]) ELSE f[k]]
    ELSE f

\* "k in f" for a result row: a sqlite3.Row looks among its values, not its
\* column names.
RowHas(type, f, k) == type # "sqlite3" /\ k \in DOMAIN f

\* _build_run_from_result of BaseSQLDatabase (lines 92-109) and of
\* MongoDBDatabase (lines 620-634).
build_run_from_result(type, job_name, f) ==
    LET run == DbRun(job_name, f.run_id)
        time(k) == IF ~RowHas(type, f, k) THEN run[k]
                   ELSE IF f[k].t = "real" THEN epoch_to_dt(f[k]) ELSE f[k]
        json(k) == IF f[k].t = "dict" THEN f[k] ELSE json_loads(f[k])
    IN  IF type = "mongodb"
        THEN [k \in DOMAIN run |->
                IF k \in DOMAIN f \ {"job_name", "run_id"} THEN f[k] ELSE run[k]]
        ELSE [run EXCEPT !.schedule_time = time("schedule_time"),
                         !.start_time = time("start_time"),
                         !.stop_time = time("stop_time"),
                         !.exit_code = IF RowHas(type, f, "exit_code")
                                       THEN f.exit_code ELSE run.exit_code,
                         !.trigger_type = f.trigger_type,
                         !.trigger_data = json("trigger_data"),
                         !.run_data = json("run_data")]

\* ORDER BY stop_time ASC and fetchone.
FirstByStopTimeAsc(S) == {f \in S : \A g \in S : g.stop_time.v >= f.stop_time.v}

\* ORDER BY stop_time DESC and fetchone (lines 127-133): a row no other row of
\* the selection is later than; which one among equals is the engine's choice.
FirstByStopTimeDesc(S) == {f \in S : \A g \in S : g.stop_time.v <= f.stop_time.v}

\* One of the three lookups of get_previous_runs (lines 111-197, 636-669):
\* the run built from the first row, or None.
PreviousOf(type, job_name, S, f) ==
    IF S = {} THEN None ELSE build_run_from_result(type, job_name, Fetched(type, f))

DbIdle == [type |-> "none", jobs |-> {}, pc |-> "idle", run |-> 0, tx_ins |-> {}, tx_del |-> {}]

\* A client of a new, empty store, with any back-end and any set of
\* configured jobs; nothing of the scheduler runs.
DbInit ==
    /\ now = 0 /\ config = 1 /\ gen = 0 /\ terms = 0 /\ trigs = 0
    /\ shutdown = FALSE /\ shutdown_begin = 0
    /\ jobs = <<>> /\ scheduled_runs = <<>> /\ running_runs = <<>>
    /\ running_groups = {}
    /\ wakeup = NoWakeup /\ next_wakeup = IdleWakeup
    /\ pc = "start" /\ tjobs = <<>> /\ todo = <<>> /\ cur = 0
    /\ child = [i \in RunIds |-> NoChild]
    /\ trigger = [n \in SeqSet(JobOrder) |-> NoFile]
    /\ wait_status = 0 /\ wait_code = -1
    /\ arg = Pending /\ res = Pending /\ procs = Pending /\ fresh = {}
    /\ runs = [i \in DbRunIds |-> DbNoRun]
    /\ nextId = 1
    /\ rows = {}
    /\ rows_running = {}
    /\ \E type \in DbTypes, js \in {{}, {"a"}} :
          db_conn = [DbIdle EXCEPT !.type = type, !.jobs = js]

DbFrame ==
    UNCHANGED <<now, config, gen, terms, trigs, shutdown, shutdown_begin, jobs,
                scheduled_runs, running_runs, running_groups, wakeup, next_wakeup, pc,
                tjobs, todo, cur, child, trigger, wait_status, wait_code, procs, fresh>>

\* The runs the daemon starts: a scheduled one, or one a trigger file asked for.
DbTriggers ==
    {[trigger_type |-> StrOf("schedule"), trigger_data |-> DictOf(NoData)],
     [trigger_type |-> StrOf("file"),
      trigger_data |-> DictOf([env |-> "dict", stype |-> "number", field |-> 1])]}

\* insert_running_run (lines 199-224, 671-680) for a new run that has started.
InsertRunningRun ==
    /\ db_conn.pc = "idle"
    /\ nextId <= MaxDbRuns
    /\ \E job_name \in DbJobNames, tr \in DbTriggers :
          LET run == [DbRun(job_name, nextId) EXCEPT
                          !.schedule_time = Datetime(0),
                          !.start_time = Datetime(1),
                          !.trigger_type = tr.trigger_type,
                          !.trigger_data = tr.trigger_data,
                          !.run_data = DictOf(NoData)]
          IN  /\ runs' = [runs EXCEPT ![nextId] = run]
              /\ rows_running' = rows_running \cup
                    {InsertRow(db_conn.type, run, DbFields \ {"stop_time", "exit_code"})}
    /\ nextId' = nextId + 1
    /\ arg' = Pending /\ res' = Pending
    /\ UNCHANGED <<rows, db_conn>>
    /\ DbFrame

\* insert_run, first statement (lines 226-252, 682-693): the run has ended, its
\* row goes to table runs; an SQL connection keeps it in its transaction.
InsertRunInsert ==
    /\ db_conn.pc = "idle"
    /\ \E id \in {f.run_id : f \in rows_running}, stop \in 2..3, code \in {0, 1} :
          LET run == [runs[id] EXCEPT !.stop_time = Datetime(stop),
                                      !.exit_code = IntOf(code)]
              row == InsertRow(db_conn.type, run, DbFields)
          IN  /\ runs[id].stop_time = None
              /\ runs' = [runs EXCEPT ![id] = run]
              /\ IF IsSQL(db_conn.type)
                 THEN /\ db_conn' = [db_conn EXCEPT !.pc = "inserted", !.run = id,
                                                    !.tx_ins = {row}]
                      /\ UNCHANGED rows
                 ELSE /\ db_conn' = [db_conn EXCEPT !.pc = "inserted", !.run = id]
                      /\ rows' = rows \cup {row}
    /\ arg' = Pending /\ res' = Pending
    /\ UNCHANGED <<rows_running, nextId>>
    /\ DbFrame

\* insert_run, second statement (lines 254-266, 694): the row of the run leaves
\* table runs_running.
InsertRunDelete ==
    /\ db_conn.pc = "inserted"
    /\ IF IsSQL(db_conn.type)
       THEN /\ db_conn' = [db_conn EXCEPT !.pc = "deleted", !.tx_del = {db_conn.run}]
            /\ UNCHANGED rows_running
       ELSE /\ db_conn' = [db_conn EXCEPT !.pc = "idle", !.run = 0]
            /\ rows_running' = {f \in rows_running : f.run_id # db_conn.run}
    /\ UNCHANGED <<rows, runs, nextId, arg, res>>
    /\ DbFrame

\* insert_run, self.db_conn.commit() (line 267): the transaction takes effect.
InsertRunCommit ==
    /\ db_conn.pc = "deleted"
    /\ rows' = rows \cup db_conn.tx_ins
    /\ rows_running' = {f \in rows_running : f.run_id \notin db_conn.tx_del}
    /\ db_conn' = [db_conn EXCEPT !.pc = "idle", !.run = 0, !.tx_ins = {}, !.tx_del = {}]
    /\ UNCHANGED <<runs, nextId, arg, res>>
    /\ DbFrame

\* clear_runs_running (lines 269-278, 696-697), as a daemon does when it starts:
\* the runs of the daemon before it are gone.
ClearRunsRunning ==
    /\ db_conn.pc = "idle"
    /\ rows_running # {}
    /\ rows_running' = {}
    /\ runs' = [i \in DbRunIds |-> IF runs[i].stop_time = None THEN DbNoRun ELSE runs[i]]
    /\ arg' = Pending /\ res' = Pending
    /\ UNCHANGED <<rows, nextId, db_conn>>
    /\ DbFrame

\* get_runs (lines 283-334, 699-724) for run_ids = [id] or job_names = [name]:
\* the runs built from the selected rows, or the exception raised on the way.
GetRuns ==
    /\ db_conn.pc = "idle"
    /\ \E a \in [run_ids : {IntOf(i) : i \in 1..(nextId - 1)}, job_names : {None}]
                \cup [run_ids : {None}, job_names : {None, StrOf("a")}] :
          LET sel == IF a.run_ids # None THEN {f \in rows : f.run_id = a.run_ids.v}
                     ELSE IF a.job_names # None
                     THEN {f \in rows : f.job_name = a.job_names.v}
                     ELSE rows
          IN  /\ arg' = [op |-> "get_runs", run_ids |-> a.run_ids, job_names |-> a.job_names]
              /\ res' = IF db_conn.jobs # {}
                        THEN [raised |-> "AttributeError", runs |-> {}]
                        ELSE [raised |-> "",
                              runs |-> {build_run_from_result(db_conn.type, f.job_name,
                                            Fetched(db_conn.type, f)) : f \in sel}]
    /\ UNCHANGED <<rows, rows_running, runs, nextId, db_conn>>
    /\ DbFrame

\* get_previous_runs (lines 111-197, 636-669) for a job.
GetPreviousRuns ==
    /\ db_conn.pc = "idle"
    /\ \E job_name \in DbJobNames :
          LET all == {f \in rows : f.job_name = job_name}
              good == {f \in all : f.exit_code.v = 0}
              bad == {f \in all : f.exit_code.v # 0}
              pick(S) == IF S = {} THEN {DbNoRun} ELSE FirstByStopTimeDesc(S)
          IN  \E f \in pick(all), g \in pick(good), b \in pick(bad) :
                /\ arg' = [op |-> "get_previous_runs", job_name |-> job_name]
                /\ res' = [previous_run |-> PreviousOf(db_conn.type, job_name, all, f),
                           previous_good_run |-> PreviousOf(db_conn.type, job_name, good, g),
                           previous_bad_run |-> PreviousOf(db_conn.type, job_name, bad, b)]
    /\ UNCHANGED <<rows, rows_running, runs, nextId, db_conn>>
    /\ DbFrame

DbNext ==
    \/ InsertRunningRun
    \/ InsertRunInsert
    \/ InsertRunDelete
    \/ InsertRunCommit
    \/ ClearRunsRunning
    \/ GetRuns
    \/ GetPreviousRuns

SpecDb == DbInit /\ [][DbNext]_vars

\* ------------------------------------------------------------------ claims
Running == SeqSet(running_runs)
Scheduled == SeqSet(scheduled_runs)
Forked == {i \in RunIds : child[i].st # "none"}
RunsOfName(S, n) == {r \in S : runs[r].job.name = n}
RunsOfGroupName(S, n) == {r \in S : runs[r].cgroup.name = n}
Names == SeqSet(JobOrder)

\* C1: in every reachable state, for every concurrency group g, identified by its
\* name, the number of runs in running_runs whose concurrency_group is g is at
\* most g.max.
C1_GroupCapacity ==
    \A r \in Running :
        runs[r].cgroup # NoGroup =>
            Cardinality(RunsOfGroupName(Running, runs[r].cgroup.name))
                <= GroupMaxOf(runs[r].cgroup)

\* C2 as stated: in every reachable state, for every job name j whose job (in the
\* loaded configuration) has concurrent_runs = false, running_runs holds at most
\* one run of j.
C2_ExclusiveByConfig ==
    \A n \in Configs[config].names :
        ~Configs[config].job[n].concurrent_runs =>
            Cardinality(RunsOfName(Running, n)) <= 1

\* C2 as amended: for every job name j such that every live run of j belongs to a
\* Job with concurrent_runs = false (was started while j forbade concurrent
\* runs), running_runs holds at most one run of j, also across a reload.
C2_Exclusive ==
    \A n \in Names :
        (\A r \in RunsOfName(Running, n) : ~JobAttr(runs[r].job).concurrent_runs) =>
            Cardinality(RunsOfName(Running, n)) <= 1

\* C2 witness: the pass over scheduled_runs is over, a run of a job that forbids
\* concurrent runs is live since before a reload, and a run of the reloaded Job
\* of the same name, due before now, is still queued.
C2_Witness ==
    /\ pc = "monitor"
    /\ \E r \in Running, q \in Scheduled :
         /\ runs[r].job.name = runs[q].job.name
         /\ runs[r].job.gen < runs[q].job.gen
         /\ ~JobAttr(runs[r].job).concurrent_runs
         /\ ~JobAttr(runs[q].job).concurrent_runs
         /\ runs[q].schedule_time < now
         /\ runs[q].schedule_time > runs[r].start_time

\* C3: after an INT or TERM signal has been handled no run is forked again and
\* scheduled_runs stays empty, wherever the handler interrupted the loop.
C3_NoStartAfterShutdown ==
    [][shutdown =>
         /\ scheduled_runs' = <<>>
         /\ \A i \in RunIds : child[i].st = "none" => child'[i].st = "none"]_vars

\* C4: with shutdown_kill_runs and shutdown_kill_grace set, after a shutdown
\* signal every run still live once the grace time is over is sent SIGKILL, and
\* the loop ends by returning with running_runs empty; stated on finite runs:
\* monitor_shutdown leaves no live run without SIGKILL after the grace time, and
\* the loop does not end any other way than by returning.
C4_ShutdownKills ==
    [][/\ (pc = "monitor" /\ shutdown /\ GraceOver(now)) =>
             \A r \in Running : runs'[r].kill_sent
       /\ (shutdown' /\ Configs[config'].kill_runs /\ Configs[config'].kill_grace > 0) =>
             /\ pc' # "crashed"
             /\ pc' = "returned" => running_runs' = <<>>]_vars

\* C5: every run that was forked gets exactly one row in table runs, whatever
\* reloads, triggers and shutdown signals occur; stated on finite runs: no run
\* ever has two rows, and once the daemon has ended every forked run has its row.
C5_EveryForkRecorded ==
    /\ \A i \in RunIds : Cardinality({w \in rows : w.run_id = i}) <= 1
    /\ ~Alive => \A i \in Forked : \E w \in rows : w.run_id = i

\* C6: for every run persisted as finished,
\* schedule_time <= start_time <= stop_time.
C6_TimesOrdered ==
    \A w \in rows : w.schedule_time <= w.start_time /\ w.start_time <= w.stop_time

\* C6 witness: a persisted run that started late and took time.
C6_Witness ==
    \E w \in rows : w.schedule_time < w.start_time /\ w.start_time < w.stop_time

\* C7: in every reachable state scheduled_runs holds at most one run with
\* respawn = true per job.
C7_OneRespawnPerJob ==
    \A n \in Names :
        Cardinality({q \in RunsOfName(Scheduled, n) : runs[q].respawn}) <= 1

\* What the wait status of an ended child says (POSIX WIFEXITED, WEXITSTATUS,
\* WIFSIGNALED, WTERMSIG).
WIFEXITED(st) == st % 128 = 0
WEXITSTATUS(st) == (st \div 256) % 256
WTERMSIG(st) == st % 128

\* C8: for every wait status of a reaped child the recorded exit code is 128 + N
\* when the child was terminated by signal N, the child's exit status otherwise,
\* and lies in 0..255, core-dump flag or not.
C8_ExitCode ==
    wait_code # -1 =>
        /\ wait_code \in 0..255
        /\ wait_code = IF WIFEXITED(wait_status)
                       THEN WEXITSTATUS(wait_status)
                       ELSE 128 + WTERMSIG(wait_status)

\* C9: max-execution enforcement sends SIGKILL to a run only after it has sent
\* SIGTERM to it, whatever the delays between loop iterations.
C9_KillAfterTerm ==
    [][\A i \in RunIds :
          (pc = "pass" /\ pc' = "monitor" /\ ~runs[i].kill_sent /\ runs'[i].kill_sent)
              => runs[i].term_sent]_vars

\* C10: a HUP reload removes no entry from running_runs, changes no pid and sends
\* no signal; a live run whose job the reload removed is still reaped and
\* persisted (the loop does not end with it live), and no respawn successor is
\* queued for that job.
C10_ReloadKeepsLiveRuns ==
    [][/\ gen' # gen =>
             /\ running_runs' = running_runs
             /\ child' = child
             /\ \A r \in Running :
                  /\ runs'[r].pid = runs[r].pid
                  /\ runs'[r].term_sent = runs[r].term_sent
                  /\ runs'[r].kill_sent = runs[r].kill_sent
       /\ \A r \in SeqSet(running_runs') :
             runs'[r].job.name \notin Configs[config'].names =>
                 /\ pc' \notin {"returned", "crashed"}
                 /\ ~\E q \in SeqSet(scheduled_runs') :
                       runs'[q].respawn /\ runs'[q].job.name = runs'[r].job.name]_vars

\* The step is process_trigger_job for the job at the head of the list
\* process_triggers walks, and f is the trigger file it finds.
IntakeStep == pc = "triggers" /\ tjobs # <<>> /\ tjobs' = Tail(tjobs)
IntakeFile == trigger[Head(tjobs).name]

\* A well-formed trigger file: a mapping whose environment, if any, is a mapping
\* and whose schedule_time, if any, is a number or a parsable date string.
WellFormed(f) ==
    /\ f.kind = "dict"
    /\ f.env \in {"absent", "dict"}
    /\ f.stype \in {"absent", "number", "date"}

\* An invalid trigger file: not a mapping, environment present but no mapping,
\* or schedule_time neither a number nor a parsable date string.
Invalid(f) ==
    \/ f.kind = "notdict"
    \/ f.kind = "dict" /\ f.env = "notdict"
    \/ f.kind = "dict" /\ f.stype \in {"baddate", "other"}

LastRun == runs'[scheduled_runs'[Len(scheduled_runs')]]

\* C11: trigger intake of a well-formed file adds exactly one run at the end of
\* scheduled_runs, with trigger_type "file", respawn false, trigger_data the
\* parsed mapping, and schedule_time the file's schedule_time field when it has
\* one, its modification time otherwise.
C11_TriggerRun ==
    [][(IntakeStep /\ WellFormed(IntakeFile)) =>
          /\ Len(scheduled_runs') = Len(scheduled_runs) + 1
          /\ SubSeq(scheduled_runs', 1, Len(scheduled_runs)) = scheduled_runs
          /\ LastRun.job = Head(tjobs)
          /\ LastRun.trigger_type = "file"
          /\ ~LastRun.respawn
          /\ LastRun.trigger_data = ParsedData(IntakeFile)
          /\ LastRun.schedule_time = IF IntakeFile.stype = "absent"
                                     THEN IntakeFile.mtime
                                     ELSE IntakeFile.field]_vars

\* C11 witness: a queued run made from a trigger file whose schedule_time field
\* differs from its modification time.
C11_Witness ==
    \E q \in Scheduled :
        /\ runs[q].trigger_type = "file"
        /\ runs[q].trigger_data.stype = "date"
        /\ runs[q].schedule_time = 2

\* The respawn runs queued for the job of Job object j.
QueuedRespawn(sr, h, j) == {k \in 1..Len(sr) : h[sr[k]].respawn /\ h[sr[k]].job.name = j.name}

\* C12: when a trigger is taken in for a job that forbids concurrent runs and a
\* respawn run of the job is queued, the run made from the trigger replaces the
\* queued run and takes over its respawn flag, so the job has as many entries in
\* scheduled_runs as before; otherwise the run is appended.
C12_TriggerReplaces ==
    [][(IntakeStep /\ WellFormed(IntakeFile)) =>
          IF /\ ~JobAttr(Head(tjobs)).concurrent_runs
             /\ QueuedRespawn(scheduled_runs, runs, Head(tjobs)) # {}
          THEN /\ Len(scheduled_runs') = Len(scheduled_runs)
               /\ \E k \in QueuedRespawn(scheduled_runs', runs', Head(tjobs)) :
                     runs'[scheduled_runs'[k]].trigger_type = "file"
          ELSE /\ Len(scheduled_runs') = Len(scheduled_runs) + 1
               /\ LastRun.trigger_type = "file"]_vars

\* C13: an invalid trigger file makes no run: scheduled_runs and running_runs
\* are as before, the file is gone, and the loop goes on with the next job.
C13_InvalidTrigger ==
    [][(IntakeStep /\ Invalid(IntakeFile)) =>
          /\ scheduled_runs' = scheduled_runs
          /\ running_runs' = running_runs
          /\ trigger'[Head(tjobs).name] = NoFile
          /\ pc' = "triggers"]_vars

\* The value of key k at the latest of the levels built-in < global < job <
\* trigger that defines k.
LatestLevel(a, k) ==
    IF a.trigger[k] # Unset THEN a.trigger[k].s
    ELSE IF a.job[k] # Unset THEN a.job[k].s
    ELSE IF a.global[k] # Unset THEN a.global[k].s
    ELSE BuiltinEnv(a.job_name)[k]

DefinedAt(a, k) ==
    k \in BuiltinSet \/ a.trigger[k] # Unset \/ a.job[k] # Unset \/ a.global[k] # Unset

\* C14: in the environment handed to exec every key defined at several levels
\* has the value of the latest level, in the order built-in < global < job <
\* trigger; only PWD is overwritten afterwards, with the directory the child
\* changed into.
C14_EnvironmentOrder ==
    res # Pending =>
        /\ \A k \in EnvKeys \ {"PWD"} :
              /\ k \in res.keys <=> DefinedAt(arg, k)
              /\ k \in res.keys => res.val[k] = LatestLevel(arg, k)
        /\ "PWD" \in res.keys
        /\ res.val["PWD"] = res.cwd
        /\ res.cwd = IF DefinedAt(arg, "PWD") /\ arg.isdir
                     THEN LatestLevel(arg, "PWD") ELSE arg.run_dir

\* C14 witness: JOB_NAME is defined at all four levels and the trigger's value
\* is handed to exec; PWD is set by the job to a directory.
C14_Witness ==
    /\ res # Pending
    /\ arg.global["JOB_NAME"] # Unset /\ arg.job["JOB_NAME"] # Unset
    /\ arg.trigger["JOB_NAME"].t = "num"
    /\ res.val["JOB_NAME"] = "1"
    /\ arg.job["PWD"] # Unset /\ arg.trigger["PWD"] = Unset /\ arg.isdir
    /\ res.cwd = "j"

\* C15: a bare H in field i resolves to
\* ((crc32(hash_id) >> i) mod (range_end - range_begin + 1)) + range_begin, a
\* value of the field's range that depends on hash_id and i only; for "hello"
\* (crc32 907060870) minute 10, hour 11, second 32.
C15_BareH ==
    (res # Pending /\ arg.expr = <<H, H, H, H, H, H>>) =>
        /\ \A i \in 0..5 :
              LET lo == RANGES[i + 1][1]
                  hi == RANGES[i + 1][2]
              IN  /\ res.expr[i + 1] = Num(((arg.crc \div (2 ^ i)) % (hi - lo + 1)) + lo)
                  /\ res.expr[i + 1].lo \in lo..hi
        /\ arg.crc = 907060870 =>
              /\ res.expr[1] = Num(10)
              /\ res.expr[2] = Num(11)
              /\ res.expr[6] = Num(32)

\* C15 witness: the fields of H H H H H H for "hello".
C15_Witness ==
    /\ res # Pending
    /\ arg = [expr |-> <<H, H, H, H, H, H>>, crc |-> 907060870]
    /\ res.expr = <<Num(10), Num(11), Num(1), Num(9), Num(5), Num(32)>>

\* The six-field form of each @-word.
SixFields(w) ==
    CASE w = "@hourly" -> <<H, Star, Star, Star, Star, H>>
      [] w = "@daily" -> <<H, H, Star, Star, Star, H>>
      [] w = "@weekly" -> <<H, H, Star, Star, H, H>>
      [] w = "@monthly" -> <<H, H, H, Star, Star, H>>
      [] w = "@midnight" -> <<H, HRange(0, 2), Star, Star, Star, H>>
      [] w \in {"@annually", "@yearly"} -> <<H, H, H, H, Star, H>>

\* C16: each @-word expands, for every hash_id, to the expansion of its
\* six-field form; @annually and @yearly expand alike.
C16_AtWords ==
    (res # Pending /\ \E w \in AtWords : arg.expr = <<Word(w)>>) =>
        LET w == arg.expr[1].w
            six == SixFields(w)
        IN  /\ Len(res.expr) = 6
            /\ \A i \in 1..6 : res.expr[i] = hash_expand_item(six[i], arg.crc, i - 1)
            /\ \A i \in 1..6 : res.expr[i].k \in {"num", "*"}

\* C16 witness: @yearly for "hello" (the instants of test_hash_word_yearly:
\* second 32, minute 10, hour 11, day 1, month 9).
C16_Witness ==
    /\ res # Pending
    /\ arg = [expr |-> <<Word("@yearly")>>, crc |-> 907060870]
    /\ res.expr = <<Num(10), Num(11), Num(1), Num(9), Star, Num(32)>>

\* The run ids a table holds.
Ids(table) == {f.run_id : f \in table}

\* C17: after insert_run(run), get_runs(run_ids=[run.id]) returns exactly one
\* run, equal to the inserted one in job name, run id, schedule_time,
\* start_time, stop_time, exit_code, trigger_type, trigger_data and run_data.
C17_RoundTrip ==
    (/\ arg # Pending
     /\ arg.op = "get_runs"
     /\ arg.run_ids # None
     /\ arg.run_ids.v \in Ids(rows)) =>
        /\ res.raised = ""
        /\ res.runs = {runs[arg.run_ids.v]}

\* C18: recording a finished run is atomic on every back-end: no run id is ever
\* in both table runs and table runs_running, and a run leaves runs_running
\* only into runs, unless clear_runs_running empties the table.
C18_AtomicRecord ==
    [][/\ Ids(rows') \cap Ids(rows_running') = {}
       /\ \/ ClearRunsRunning
          \/ Ids(rows_running) \subseteq Ids(rows_running') \cup Ids(rows')]_vars

\* What one part of the previous-run lookup must be for the rows S it selects
\* among: None when there is none, else the run of a row of S no other row of S
\* is later than, of the job asked for, and not a running one.
IsLatestOf(r, S) ==
    IF S = {} THEN r = None
    ELSE /\ r # None
         /\ r.job_name = arg.job_name
         /\ r.run_id \notin Ids(rows_running)
         /\ \E f \in S : /\ f.run_id = r.run_id
                         /\ f.job_name = arg.job_name
                         /\ \A g \in S : g.stop_time.v <= f.stop_time.v

\* C19: the previous-run lookup for a job returns the finished run of that job
\* with the greatest stop_time, the one with the greatest stop_time among those
\* with exit_code = 0, and the one among those with exit_code # 0, None where
\* there is none; never a run of another job or a running one.
C19_PreviousRuns ==
    (arg # Pending /\ arg.op = "get_previous_runs") =>
        LET S == {f \in rows : f.job_name = arg.job_name}
        IN  /\ IsLatestOf(res.previous_run, S)
            /\ IsLatestOf(res.previous_good_run, {f \in S : f.exit_code.v = 0})
            /\ IsLatestOf(res.previous_bad_run, {f \in S : f.exit_code.v # 0})

\* C19 witness: a lookup for job "a" with an earlier good run, a later bad run
\* and a still later run of job "b" in the table, and a run of "a" running.
C19_Witness ==
    /\ arg # Pending /\ arg.op = "get_previous_runs" /\ arg.job_name = "a"
    /\ res.previous_run # None /\ res.previous_good_run # None
    /\ res.previous_run = res.previous_bad_run
    /\ \E f, g, h \in rows :
          /\ f.job_name = "a" /\ f.exit_code.v = 0 /\ f.stop_time.v = 2
          /\ g.job_name = "a" /\ g.exit_code.v = 1 /\ g.stop_time.v = 3
          /\ h.job_name = "b"
          /\ res.previous_good_run.run_id = f.run_id
          /\ res.previous_run.run_id = g.run_id

\* C20: a SIGUSR1 delivered to the daemon leaves scheduled_runs, running_runs,
\* running_groups and the shutdown flag as they are, and the daemon keeps
\* running.
C20_Usr1NoOp ==
    [][SigUsr1 => /\ UNCHANGED <<scheduled_runs, running_runs, running_groups, shutdown>>
                  /\ Alive']_vars

\* The loop is walking its shuffled copy of scheduled_runs, or is inside
\* process_scheduled_run for a run of it.
InPass == (pc = "pass" /\ todo # <<>>) \/ pc \in {"remove", "append", "respawn"}

\* A handler that changes the scheduler's lists has run: begin_shutdown or a
\* reload.
HandlerStep == terms' # terms \/ gen' # gen

\* C21: a HUP, INT or TERM delivered while the loop walks its copy of
\* scheduled_runs (or is inside process_scheduled_run) changes neither
\* scheduled_runs nor running_runs under the loop, so the run the loop is about
\* to remove from scheduled_runs is always in it.
C21_SignalsAtPhaseBoundary ==
    [][/\ (HandlerStep /\ InPass) =>
             /\ scheduled_runs' = scheduled_runs
             /\ running_runs' = running_runs
       /\ pc' = "remove" => cur' \in SeqSet(scheduled_runs')]_vars

\* C22: every signal handler (INT, TERM, HUP, QUIT) sets next_wakeup to now, so
\* that the loop does not wait for the next_wakeup computed before the signal.
C22_HandlersWake ==
    [][(HandlerStep \/ (SigQuit /\ now < next_wakeup)) => next_wakeup' = now]_vars

\* C23: once a child has been reaped and recorded, the child-reaping wait is
\* over: the loop does not go back to waiting for the other live runs until
\* next_wakeup, it starts its next iteration.
C23_ReapEndsWait ==
    [][(pc = "record" /\ pc' = "while") =>
          ~(running_runs' # <<>> /\ next_wakeup' > now')]_vars

\* C25: the daemon ends only with shutdown set and running_runs empty: it never
\* exits while a run it started is live, nor without a shutdown signal.
C25_ExitOnlyAfterShutdown ==
    pc \in {"returned", "crashed"} =>
        /\ shutdown
        /\ running_runs = <<>>
        /\ \A i \in RunIds : child[i].st # "live"

\* C24: a further INT or TERM received during shutdown leaves shutdown_begin as
\* the first signal set it, so the SIGKILL deadline is not postponed, and sends
\* no SIGTERM to a child that was already sent one.
C24_ShutdownBeginOnce ==
    [][(shutdown /\ terms' # terms) =>
          /\ shutdown_begin' = shutdown_begin
          /\ \A r \in Running : runs[r].term_sent => runs'[r] = runs[r]]_vars

\* The jobs of configuration c that have a schedule.
ScheduledNames(c) == {n \in Configs[c].names : Configs[c].job[n].schedule > 0}

\* C26: a HUP reload handled outside shutdown rebuilds scheduled_runs from
\* scratch: afterwards it holds exactly one run for each job of the new
\* configuration that has a schedule, built by the reload, with respawn set,
\* trigger_type "schedule" and a schedule_time strictly after the reload time,
\* and none of the runs queued before.
C26_ReloadRebuildsQueue ==
    [][(gen' # gen /\ ~shutdown) =>
          /\ Len(scheduled_runs') = Cardinality(ScheduledNames(config'))
          /\ \A n \in ScheduledNames(config') :
                \E k \in 1..Len(scheduled_runs') : runs'[scheduled_runs'[k]].job.name = n
          /\ \A k \in 1..Len(scheduled_runs') :
                LET q == runs'[scheduled_runs'[k]]
                IN  /\ scheduled_runs'[k] \notin SeqSet(scheduled_runs)
                    /\ q.job = [gen |-> gen', cfg |-> config', name |-> q.job.name]
                    /\ q.job.name \in ScheduledNames(config')
                    /\ q.respawn
                    /\ q.trigger_type = "schedule"
                    /\ q.schedule_time > now]_vars

\* C26 witness: after a reload outside shutdown the queue holds runs of the new
\* configuration only, while the loop's copy still holds a run a trigger file
\* had created, not started yet and no longer queued.
C26_Witness ==
    /\ gen = 1 /\ ~shutdown /\ pc = "pass"
    /\ todo # <<>>
    /\ Head(todo) \notin Scheduled
    /\ runs[Head(todo)].trigger_type = "file"
    /\ Scheduled # {}
    /\ \A q \in Scheduled : runs[q].job.gen = 1 /\ runs[q].respawn

\* C27: the respawn successor queued when a respawn run is forked has a
\* schedule_time strictly greater than the start_time of the run that spawned
\* it, and is not in the copy the loop is walking, so the iteration that
\* created it does not start it.
C27_SuccessorAfterStart ==
    [][(pc = "respawn" /\ pc' = "pass") =>
          LET q == scheduled_runs'[Len(scheduled_runs')]
          IN  /\ Len(scheduled_runs') = Len(scheduled_runs) + 1
              /\ runs'[q].respawn
              /\ runs'[q].job = runs[cur].job
              /\ runs'[q].schedule_time > runs[cur].start_time
              /\ q \notin SeqSet(todo')]_vars

\* C27 witness: a run that started late, off its job's grid, is live and its
\* successor is queued for the next instant of the grid.
C27_Witness ==
    \E r \in Running, q \in Scheduled :
        /\ runs[q].respawn
        /\ runs[q].job = runs[r].job
        /\ runs[r].schedule_time = 2
        /\ runs[r].start_time = 3
        /\ runs[q].schedule_time = 4

\* ------------------------------------------------ a bounded RRULE schedule
\* SIGHUP when the configuration directory holds a bounded RRULE.
SigHupRRule ==
    /\ Alive
    /\ \E c \in RRuleConfigIds : Reload(c)

InitRRule ==
    /\ SchedInitIn(RRuleConfigIds)
    /\ wait_status = 0
    /\ wait_code = -1
    /\ NoCall

SpecRRule == InitRRule /\ [][Next \/ SigHupRRule]_vars

\* C28: when a job's schedule has no occurrence after the anchor, the
\* scheduler queues no run for the job and keeps running, and neither
\* running_runs nor the recorded rows change: when the loop computes the
\* respawn successor of a run it has just forked, and at a reload.
C28_NoOccurrenceKeepsRunning ==
    [][/\ (/\ pc = "respawn" /\ pc' # pc /\ terms' = terms
           /\ NextScheduleRaises(runs[cur].job, runs[cur].start_time))
          => /\ pc' = "pass"
             /\ scheduled_runs' = scheduled_runs
             /\ running_runs' = running_runs
             /\ rows' = rows /\ rows_running' = rows_running
       /\ (gen' # gen /\ ~shutdown)
          => /\ Alive'
             /\ \A j \in SeqSet(jobs') :
                   (HasSchedule(j) /\ NextScheduleRaises(j, now)) =>
                      \A k \in 1..Len(scheduled_runs') : runs'[scheduled_runs'[k]].job # j
             /\ running_runs' = running_runs
             /\ rows' = rows /\ rows_running' = rows_running]_vars

\* ----------------------------------------------- os.fork: the child process
\* Run.__init__: the id of the k-th run (a uuid4, as text).
RunIdText == <<"id1", "id2", "id3", "id4", "id5">>

Kids == 1..MaxChildRuns

\* The frames of the scheduler on the stack when process_scheduled_run forks,
\* innermost first; the child inherits them.
Frames == <<"process_scheduled_run", "loop", "main">>

\* A handler that would catch what run_child_executor raises: lines 742-745,
\* 773-803 and 806-812 have no try statement.
CatchesInLoop(frame) == frame = "loop"
Catches(frame) == FALSE

\* Where control of the child is after run_child_executor raised: in the
\* innermost frame that catches, or nowhere (the interpreter prints the
\* traceback and the process ends with status 1).
RECURSIVE Unwind(_)
Unwind(frames) ==
    IF frames = <<>> THEN "terminated"
    ELSE IF Catches(Head(frames)) THEN Head(frames)
    ELSE Unwind(Tail(frames))

NoKid == [pc |-> "none", command |-> <<>>, argv |-> <<>>]

\* command.append(x) in a process that shares job.command with the scheduler.
list_append_shared(p, k, x) ==
    [p EXCEPT !.command = Append(@, x), !.kids[k].command = Append(@, x)]

\* command.append(x) run by child k: after os.fork the list is the child's
\* own copy.
list_append(p, k, x) == [p EXCEPT !.kids[k].command = Append(@, x)]

\* A job as configured, and the scheduler before its first fork.
ChildInit ==
    /\ CallInit
    /\ db_conn = Pending
    /\ res = Pending
    /\ arg \in [job_name : {"a"}, command : {<<"cmd">>, <<"cmd", "-v">>},
                 command_append_run : BOOLEAN]
    /\ procs = [command |-> arg.command, started |-> 0, kids |-> [k \in Kids |-> NoKid]]

\* process_scheduled_run lines 742-746: os.fork. The child starts
\* run_child_executor with a copy of the scheduler's memory; the scheduler
\* goes on.
ChildFork ==
    /\ procs.started < MaxChildRuns
    /\ procs' = [procs EXCEPT !.started = @ + 1,
                              !.kids[procs.started + 1] =
                                  [pc |-> "executor", command |-> procs.command, argv |-> <<>>]]
    /\ UNCHANGED <<arg, res, db_conn, SchedVars>>

\* run_child_executor lines 453-457: command = job.command, lengthened in
\* place when command_append_run is set.
ChildBuildCommand ==
    \E k \in Kids :
        /\ procs.kids[k].pc = "executor"
        /\ LET p == IF arg.command_append_run
                    THEN list_append(list_append(procs, k, arg.job_name), k, RunIdText[k])
                    ELSE procs
           IN  procs' = [p EXCEPT !.kids[k].pc = "built", !.kids[k].argv = p.kids[k].command]
        /\ UNCHANGED <<arg, res, db_conn, SchedVars>>

\* run_child_executor line 472: os.execvpe replaces the process.
ChildExec ==
    \E k \in Kids :
        /\ procs.kids[k].pc = "built"
        /\ procs' = [procs EXCEPT !.kids[k].pc = "replaced"]
        /\ UNCHANGED <<arg, res, db_conn, SchedVars>>

\* run_child_executor raises: output.txt cannot be opened (line 445), the run
\* directory cannot be entered (line 463), or os.execvpe fails (line 472).
ChildRaise ==
    \E k \in Kids :
        /\ procs.kids[k].pc \in {"executor", "built"}
        /\ procs' = [procs EXCEPT !.kids[k].pc = Unwind(Frames)]
        /\ UNCHANGED <<arg, res, db_conn, SchedVars>>

ChildNext == ChildFork \/ ChildBuildCommand \/ ChildExec \/ ChildRaise

SpecChild == ChildInit /\ [][ChildNext]_vars

\* C29: a forked child never continues as a second scheduler: its control is
\* in run_child_executor, replaced by the job's command, or ended; it is never
\* in a frame of the scheduler, and once replaced or ended it stays so.
C29_ChildNeverScheduler ==
    [][\A k \in Kids :
          /\ procs'.kids[k].pc \in {"none", "executor", "built", "replaced", "terminated"}
          /\ procs.kids[k].pc \in {"replaced", "terminated"}
                => procs'.kids[k] = procs.kids[k]]_vars

\* C29 witness: one child was replaced by the job's command, another ended
\* with an error, and the scheduler has forked again since.
C29_Witness ==
    /\ procs.kids[1].pc = "replaced"
    /\ procs.kids[2].pc = "terminated"
    /\ procs.kids[3].pc = "executor"

\* What C30 says os.execvpe is handed for run k.
ExpectedArgv(k) == arg.command \o <<arg.job_name, RunIdText[k]>>

\* C30: for a job with command_append_run the argv handed to os.execvpe for
\* each run, the n-th included, is the configured command followed by the job
\* name and the run's id, and the scheduler's job.command stays the configured
\* command.
C30_ArgvPerRun ==
    arg.command_append_run =>
        /\ procs.command = arg.command
        /\ \A k \in Kids :
              procs.kids[k].pc \in {"built", "replaced"} => procs.kids[k].argv = ExpectedArgv(k)

\* C30 witness: the third run of the job was handed its argv after the first
\* two.
C30_Witness ==
    /\ arg.command_append_run
    /\ arg.command = <<"cmd", "-v">>
    /\ \A k \in Kids : procs.kids[k].pc = "replaced"
    /\ procs.kids[3].argv = <<"cmd", "-v", "a", "id3">>

\* C31: max-execution enforcement (the step of loop lines 783-784) sends no
\* SIGTERM and no SIGKILL to a run that was forked in the same iteration,
\* whatever the clock did in between.
C31_NoSameTickEnforcement ==
    [][(pc = "pass" /\ pc' = "monitor") =>
          \A r \in fresh : /\ runs'[r].term_sent = runs[r].term_sent
                           /\ runs'[r].kill_sent = runs[r].kill_sent]_vars

\* C32: no due run starves. A run that is queued and due when the scheduler
\* process has ended is never started, so as long as no shutdown and no reload
\* occurred the scheduler is alive whenever a due run is queued.
C32_DueRunNotAbandoned ==
    (terms = 0 /\ gen = 0 /\ \E r \in Scheduled : IsDue(r, now)) => Alive

\* ------------------------------------------ loading the concurrency groups
\* What the configuration file may hold under concurrency_groups.<name>.max:
\* nothing, or a JSON value with its Python type.
NoMax == [t |-> "absent", v |-> 0]
RawMax ==
    {NoMax}
    \cup {[t |-> "int", v |-> n] : n \in {-1, 0, 1, 2}}
    \cup {[t |-> "bool", v |-> n] : n \in {0, 1}}
    \cup {[t |-> "float", v |-> 1], [t |-> "str", v |-> 1]}

GroupNames == {"g", "h"}

ConfigError == [error |-> "ConfigError"]

\* populate_object line 145 for the key max: setattr stores the value as it
\* is; without the key the max of ConcurrencyGroup.__init__ stays.
populate_max(raw) == IF raw = NoMax THEN DefaultGroupMax ELSE raw.v

\* build_concurrency_groups: ConfigError when type(v) of some max is not int
\* (populate_object line 129), else the groups with their max.
build_concurrency_groups(cfg) ==
    IF \E n \in GroupNames : cfg[n] # NoMax /\ cfg[n].t # "int"
    THEN ConfigError
    ELSE [groups |-> [n \in GroupNames |-> [name |-> n, max |-> populate_max(cfg[n])]]]

GroupsInit ==
    /\ CallInit
    /\ db_conn = Pending
    /\ procs = Pending
    /\ arg \in [GroupNames -> RawMax]
    /\ res = Pending

LoadGroups ==
    /\ res = Pending
    /\ res' = build_concurrency_groups(arg)
    /\ UNCHANGED <<procs, arg, db_conn, SchedVars>>

GroupsNext == LoadGroups

SpecGroups == GroupsInit /\ [][GroupsNext]_vars

\* C33: every concurrency group of a loaded configuration has max >= 1, so
\* the admission test of process_scheduled_run (line 603) lets a run in when
\* the group's bucket is empty.
C33_GroupMaxPositive ==
    (res # Pending /\ res # ConfigError) =>
        \A n \in GroupNames : res.groups[n].max >= 1 /\ 0 < res.groups[n].max

\* ------------------------------------- croniter_hash: one item by itself
\* The numbers tried as lo, hi and step.
ItemNumbers == {0, 1, 2, 3, 5, 10, 15, 23, 31, 59}
ItemSteps == {1, 2, 5, 10, 15}

\* The H items with a sub-range inside the range of field idx and a step >= 1.
HashItems(idx) ==
    LET inside == {n \in ItemNumbers : RANGES[idx + 1][1] <= n /\ n <= RANGES[idx + 1][2]}
        pairs == {p \in inside \X inside : p[1] <= p[2]}
    IN  {HRange(p[1], p[2]) : p \in pairs}
        \cup {HStep(n) : n \in ItemSteps}
        \cup {HRangeStep(p[1], p[2], n) : p \in pairs, n \in ItemSteps}

HashItemInit ==
    /\ CallInit
    /\ db_conn = Pending
    /\ procs = Pending
    /\ \E idx \in 0..5 : arg \in [item : HashItems(idx), crc : CrcSamples, idx : {idx}]
    /\ res = Pending

\* _hash_expand line 79, for one item.
HashExpandItem ==
    /\ res = Pending
    /\ res' = hash_expand_item(arg.item, arg.crc, arg.idx)
    /\ UNCHANGED <<procs, arg, db_conn, SchedVars>>

HashItemNext == HashExpandItem

SpecHashItem == HashItemInit /\ [][HashItemNext]_vars

\* C34: H(lo-hi) with lo <= hi inside the field's range expands to one value v
\* with lo <= v <= hi, for every id, a lo or hi of 0 included.
C34_RangeWithinBounds ==
    (res # Pending /\ arg.item.k = "H(-)") =>
        /\ res.k = "num"
        /\ arg.item.lo <= res.lo
        /\ res.lo <= arg.item.hi

\* The range an H item with a step spreads over: the sub-range given, or the
\* field's range.
StepRange(a) ==
    IF a.item.k = "H(-)/" THEN <<a.item.lo, a.item.hi>> ELSE RANGES[a.idx + 1]

\* C35: H/n and H(lo-hi)/n expand to start-end/n with the start inside the
\* range and less than n above its lower bound, so the range expanded to is
\* not empty and skips no slot of the step.
C35_StepStartInRange ==
    (res # Pending /\ arg.item.k \in {"H/", "H(-)/"}) =>
        /\ res.k = "-/"
        /\ res.hi = StepRange(arg)[2]
        /\ res.step = arg.item.step
        /\ StepRange(arg)[1] <= res.lo
        /\ res.lo <= res.hi
        /\ res.lo - StepRange(arg)[1] < arg.item.step

\* ------------------------------------- get_next_schedule_time: RRULE anchor
\* Line 62: the seconds of a day.
DaySeconds == 86400

ZeroDivisionError == [error |-> "ZeroDivisionError"]

\* Line 62: hashed_epoch, in whole seconds since the epoch. Python's float %
\* raises ZeroDivisionError when crc % 86400 is 0.
hashed_epoch(crc, start_time) ==
    IF crc % DaySeconds = 0 THEN ZeroDivisionError
    ELSE [t |-> start_time - (start_time % (crc % DaySeconds))]

\* dateutil's rrule.after for a rule FREQ=SECONDLY;INTERVAL=period with the
\* given dtstart: the first of dtstart, dtstart + period, ... strictly after t.
rrule_after(dtstart, period, t) ==
    IF t < dtstart THEN dtstart
    ELSE dtstart + period * (((t - dtstart) \div period) + 1)

\* Lines 62-66 without subsecond_offset, which is the same at every call for
\* one job name.
rrule_next(crc, period, start_time) ==
    LET h == hashed_epoch(crc, start_time)
    IN  IF h = ZeroDivisionError THEN h
        ELSE [t |-> rrule_after(h.t, period, start_time)]

\* crc32 of the names tried: "e3bd" (377827200 = 4373 * 86400) and "hello"
\* among them.
AnchorCrcs == {0, 86400, 377827200, 100, 86500, 3600, 907060870, 86399, 1}

\* The rule's interval in seconds, and the instants the function is called at.
AnchorPeriods == {60, 3600, 86400}
AnchorTimes == {0, 50, 170, 210, 219, 3599, 3600, 86400, 100000}

AnchorInit ==
    /\ CallInit
    /\ db_conn = Pending
    /\ procs = Pending
    /\ arg \in [crc : AnchorCrcs, period : AnchorPeriods, a1 : AnchorTimes, a2 : AnchorTimes]
    /\ res = Pending

\* get_next_schedule_time at the instants a1 and a2.
NextFromAnchors ==
    /\ res = Pending
    /\ res' = [anchor |-> hashed_epoch(arg.crc, arg.a1),
               t1 |-> rrule_next(arg.crc, arg.period, arg.a1),
               t2 |-> rrule_next(arg.crc, arg.period, arg.a2)]
    /\ UNCHANGED <<procs, arg, db_conn, SchedVars>>

AnchorNext == NextFromAnchors

SpecAnchor == AnchorInit /\ [][AnchorNext]_vars

\* C36: the anchor of an RRULE schedule is defined for every job name, is not
\* after now and is less than a day before now.
C36_AnchorDefined ==
    res # Pending =>
        /\ res.anchor # ZeroDivisionError
        /\ res.anchor.t <= arg.a1
        /\ arg.a1 - res.anchor.t < DaySeconds

\* C37: for one rule and one job name, when the next instant computed from a1
\* is later than a2 > a1, the next instant computed from a2 is the same.
C37_StableGrid ==
    (/\ res # Pending
     /\ res.t1 # ZeroDivisionError
     /\ arg.a1 < arg.a2
     /\ arg.a2 < res.t1.t) => res.t2 = res.t1

\* C38: a HUP handled after shutdown has begun does not re-populate the
\* scheduler: scheduled_runs is and stays empty, the jobs list used by trigger
\* intake is not rebuilt, and the handler starts no run.
C38_HupAfterShutdown ==
    [][(shutdown /\ gen' # gen) =>
          /\ scheduled_runs = <<>>
          /\ scheduled_runs' = <<>>
          /\ jobs' = jobs
          /\ running_runs' = running_runs
          /\ child' = child]_vars

\* C39: at every iteration boundary the buckets mirror the live runs: a run
\* is in the bucket of group g exactly when it is in running_runs and its
\* concurrency_group is g, it is in at most one bucket, and a run that is no
\* longer in running_runs is in no bucket.
C39_BucketsMirrorRuns ==
    pc = "start" =>
        /\ \A p \in running_groups :
              /\ p[2] \in Running
              /\ runs[p[2]].cgroup = p[1]
        /\ \A r \in Running :
              runs[r].cgroup # NoGroup => <<runs[r].cgroup, r>> \in running_groups
        /\ \A p, q \in running_groups : p[2] = q[2] => p = q

\* C39 witness: at an iteration boundary one run of a group has been reaped
\* and recorded and another run is live in a bucket.
C39_Witness ==
    /\ pc = "start"
    /\ gen = 0 /\ config = 1
    /\ \E r \in Running :
          /\ runs[r].cgroup # NoGroup
          /\ <<runs[r].cgroup, r>> \in running_groups
          /\ \E w \in rows : w.run_id # r /\ child[w.run_id].st = "reaped"

\* The pid of a child process that is not a run of the scheduler: wait4(-1)
\* reports every child of the process, whoever forked it.
StrayPid == 0

\* The scheduler started in a process that already has one child.
InitStray ==
    /\ SchedInitFrom({1}, {StrayPid})
    /\ wait_status = 0
    /\ wait_code = -1
    /\ NoCall

SpecStray == InitStray /\ [][Next]_vars

\* C40: reaping a child whose pid belongs to no run of running_runs returns
\* at once (the loop is back at its inner while) and changes nothing:
\* running_runs, running_groups, scheduled_runs and both store tables are
\* unchanged, so no terminal row is written.
C40_StrayReapChangesNothing ==
    [][(child[StrayPid].st = "live" /\ child'[StrayPid].st = "reaped") =>
          /\ pc' = "while"
          /\ UNCHANGED <<running_runs, running_groups, scheduled_runs,
                         rows, rows_running, runs>>]_vars

\* C40 witness: the stray child has been reaped while a run was live, and
\* that run is still live, in running_runs and in the table runs_running.
C40_Witness ==
    /\ child[StrayPid].st = "reaped"
    /\ pc = "while"
    /\ \E r \in Running : /\ child[r].st = "live"
                          /\ r \in rows_running
                          /\ \A w \in rows : w.run_id # r

====
